---------------------------- MODULE Spec2Model ----------------------------
(***************************************************************************)
(* Model of the d3dmesh-to-gltf decoding engine: the byte cursor, the      *)
(* material / texture-usage decoder, the name header, the vertex decoder,  *)
(* scene assembly, the BCn block decoder, the skeleton decoder and the     *)
(* batch dispatch of main.rs.                                              *)
(*                                                                         *)
(* A decoder is a function of the bytes under the cursor.  It is modelled  *)
(* as an operator over a byte sequence b and a 0-based cursor position,    *)
(* and returns a record whose field st is "Ok", "Err" (an anyhow error     *)
(* propagated by `?`) or "Panic", together with the final cursor position  *)
(* and the decoded value.  Each specification draws the bytes from a       *)
(* bounded family of files laid out field by field (variable desc) and     *)
(* applies the decoder in one action.                                      *)
(***************************************************************************)
EXTENDS Integers, Sequences, FiniteSets, TLC

VARIABLES
    desc,     \* the description of the file under decode (what was laid out)
    input,    \* the bytes held by the Cursor<Vec<u8>> (main.rs: Cursor::new(file))
    ret       \* what the entry point returned, NoRet before the call

vars == <<desc, input, ret>>

NoRet == [st |-> "None"]

(***************************************************************************)
(* Bounds of the enumerated inputs.                                        *)
(***************************************************************************)
MaxSections == 2      \* sections in a material's tag-counted list
MaxCount == 1         \* section_count of one section

(***************************************************************************)
(* The byte cursor (std::io::Cursor over the file's bytes, byteorder's     *)
(* little-endian reads).                                                   *)
(***************************************************************************)
Zeros(n) == [i \in 1..n |-> 0]

Fill(n, v) == [i \in 1..n |-> v]

\* read_exact of n bytes at pos succeeds iff the bytes are there.
ReadOk(b, pos, n) == pos + n <= Len(b)

\* A u32 at or above 2^30 is collapsed to U32Huge (TLC's integers are 32 bits
\* wide); no enumerated file distinguishes two such values.
U32Huge == 64 * 16777216

U8At(b, pos) == b[pos + 1]

U16At(b, pos) == b[pos + 1] + 256 * b[pos + 2]

U32At(b, pos) ==
    IF b[pos + 4] >= 64 THEN U32Huge
    ELSE b[pos + 1] + 256 * b[pos + 2] + 65536 * b[pos + 3] + 16777216 * b[pos + 4]

\* read_u64::<LittleEndian>: the value as its 8 bytes, most significant first
\* (the order the source writes its hash literals in).
U64At(b, pos) == [i \in 1..8 |-> b[pos + 9 - i]]

Bytes(b, pos, n) == [i \in 1..n |-> b[pos + i]]

\* The little-endian layout of a value below 2^31 / of a 64-bit value.
LE16(v) == <<v % 256, (v \div 256) % 256>>

LE32(v) == <<v % 256, (v \div 256) % 256, (v \div 65536) % 256, (v \div 16777216) % 256>>

LE64(h) == [i \in 1..8 |-> h[9 - i]]

RECURSIVE Concat(_)
Concat(ss) == IF ss = <<>> THEN <<>> ELSE Head(ss) \o Concat(Tail(ss))

\* Cursor::seek(SeekFrom::Current(d)): an error iff the new position is negative;
\* a position past the end of the buffer is accepted.
SeekCurrentOk(pos, d) == pos + d >= 0

(***************************************************************************)
(* ChecksumMap: the reverse lookup from CRC-64 values to identifier        *)
(* strings.  The bundled string list is represented by two entries.        *)
(***************************************************************************)
ChecksumEntries ==
    { << <<\h11, \h22, \h33, \h44, \h55, \h66, \h77, \h88>>, "obj_a.d3dtx" >>,
      << <<\h0a, \h0b, \h0c, \h0d, \h0e, \h0f, \h10, \h11>>, "obj_b_nm.d3dtx" >> }

HasMapping(hash) == \E e \in ChecksumEntries : e[1] = hash

get_mapping(hash) == (CHOOSE e \in ChecksumEntries : e[1] = hash)[2]

(***************************************************************************)
(* d3dmesh/textures.rs: Texture::parse.                                    *)
(***************************************************************************)
TextureTypeOf(h) ==
    CASE
       h = <<\h98, \h36, \h97, \h08, \h82, \ha3, \h4f, \h02>> -> <<"Anisotropy", "Map">>
    [] h = <<\h71, \h4d, \h23, \h44, \h59, \h36, \hb3, \h5d>> -> <<"AnisotropyMask", "Map">>
    [] h = <<\h75, \h01, \he0, \h41, \hac, \h72, \ha9, \h88>> -> <<"AnisotropyTangent", "Map">>
    [] h = <<\hb8, \hb0, \h4d, \hdf, \h17, \h96, \hf4, \h46>> -> <<"Bump", "Map">>
    [] h = <<\h72, \h50, \h7e, \hea, \h6e, \hf2, \h1a, \hee>> -> <<"ColorMask", "Map">>
    [] h = <<\h2b, \h6c, \h47, \h84, \h5f, \h60, \h77, \h34>> -> <<"DamageMask", "MapA">>
    [] h = <<\hec, \h7d, \h65, \hb8, \ha5, \h5e, \h2c, \h81>> -> <<"DamageMask", "MapB">>
    [] h = <<\h36, \h17, \h0f, \h97, \h44, \h5b, \h6e, \h2e>> -> <<"DecalDiffuse", "Map">>
    [] h = <<\ha1, \hf1, \h25, \h7a, \h33, \h18, \h54, \hc4>> -> <<"DecalMask", "Map">>
    [] h = <<\h9c, \hf6, \h76, \hc6, \h40, \h3c, \h97, \h84>> -> <<"DecalNormal", "Map">>
    [] h = <<\h49, \h30, \hb9, \h70, \ha7, \hfd, \h51, \h1f>> -> <<"Detail", "Map">>
    [] h = <<\hdf, \h7e, \h41, \h22, \h56, \he8, \h7e, \h74>> -> <<"Detail", "MapB">>
    [] h = <<\hcb, \h43, \h34, \h36, \hed, \hca, \h9e, \hfb>> -> <<"DetailGloss", "Map">>
    [] h = <<\hbf, \h46, \h8e, \hf4, \h80, \hae, \heb, \h89>> -> <<"DetailMask", "Map">>
    [] h = <<\h96, \h3e, \he6, \h38, \h08, \h30, \h14, \hf1>> -> <<"DetailNormal", "Map">>
    [] h = <<\h70, \h6c, \hf2, \haa, \h57, \ha7, \ha2, \h06>> -> <<"DetailNormal", "Map">>
    [] h = <<\hd4, \h9d, \h30, \hf6, \h4a, \h58, \h0c, \h6f>> -> <<"DetailNormal", "MapA">>
    [] h = <<\h13, \h8c, \h12, \hca, \hb0, \h66, \h57, \hda>> -> <<"DetailNormal", "MapB">>
    [] h = <<\h51, \h7c, \hf3, \h21, \h19, \h8c, \h61, \h49>> -> <<"DetailNormal", "MapC">>
    [] h = <<\hbd, \hcd, \h25, \hf2, \h0f, \h41, \h99, \he3>> -> <<"PackedDetail", "Map">>
    [] h = <<\h86, \h48, \hfa, \h82, \hd1, \hdb, \hee, \h1a>> -> <<"Diffuse", "Map">>
    [] h = <<\h94, \ha5, \h90, \hde, \h74, \hb1, \hf5, \hc1>> -> <<"Diffuse", "MapB">>
    [] h = <<\hdc, \h6e, \h83, \ha0, \h25, \h3f, \h16, \h3a>> -> <<"DiffuseLOD", "Map">>
    [] h = <<\hb3, \h02, \h2e, \ha7, \hfd, \h41, \h8b, \h40>> -> <<"Emission", "Map">>
    [] h = <<\hbd, \hb4, \hc9, \h2a, \h54, \h6f, \hb8, \h89>> -> <<"Emission", "MapB">>
    [] h = <<\h13, \hee, \he6, \h58, \h65, \hdf, \hc9, \h0f>> -> <<"Environment", "Map">>
    [] h = <<\h25, \h7c, \h2a, \h45, \h68, \h3f, \h7d, \h2f>> -> <<"Environment", "Map">>
    [] h = <<\h8c, \had, \hb2, \h60, \h98, \hdf, \h11, \h08>> -> <<"Flow", "Map">>
    [] h = <<\h64, \hfb, \ha8, \h3e, \h34, \hdd, \h39, \h59>> -> <<"Gloss", "Map">>
    [] h = <<\h26, \h42, \hd6, \hb4, \hc8, \hec, \hca, \ha9>> -> <<"Gradient", "Map">>
    [] h = <<\ha3, \h34, \hf7, \h6c, \h31, \h7a, \h0c, \h02>> -> <<"Gradient", "Map">>
    [] h = <<\h2a, \ha8, \h92, \h60, \hd8, \h66, \h1f, \h89>> -> <<"Grime", "Map">>
    [] h = <<\h66, \hcd, \h6e, \h57, \hfa, \h58, \ha2, \h46>> -> <<"Height", "Map">>
    [] h = <<\hff, \h78, \h7a, \h61, \hea, \hc8, \ha5, \hb5>> -> <<"Ink", "Map">>
    [] h = <<\h81, \h7a, \hfd, \h53, \h02, \h44, \h5b, \h8b>> -> <<"MicrodetailDiffuse", "Map">>
    [] h = <<\hcb, \h5b, \h9a, \h7f, \h52, \h16, \h8a, \h41>> -> <<"MicrodetailNormal", "Map">>
    [] h = <<\h1e, \h3f, \h6b, \h9f, \h25, \h50, \h38, \h9d>> -> <<"Normal", "Map">>
    [] h = <<\h3f, \h38, \h00, \h50, \haf, \hd9, \hf8, \h1f>> -> <<"Normal", "MapB">>
    [] h = <<\h43, \h62, \h06, \he6, \h8a, \h9e, \h7c, \hca>> -> <<"Normal", "MapB">>
    [] h = <<\h74, \h98, \ha5, \hf1, \hb8, \h0a, \hd4, \h19>> -> <<"NormalAlternate", "Map">>
    [] h = <<\hca, \haa, \he6, \h43, \h2a, \hf3, \h48, \hc0>> -> <<"Occlusion", "Map">>
    [] h = <<\h62, \hc4, \h95, \h75, \h78, \h18, \h9f, \h07>> -> <<"Occlusion", "Map">>
    [] h = <<\h53, \h3f, \h47, \h9d, \h08, \hbf, \h0e, \h5e>> -> <<"RainFall", "Map">>
    [] h = <<\h2e, \hba, \h1f, \h4b, \hba, \h7a, \h15, \h43>> -> <<"RainWet", "Map">>
    [] h = <<\hc8, \hc9, \h41, \h55, \hfb, \h7c, \h63, \h4b>> -> <<"Specular", "Map">>
    [] h = <<\hd5, \hb5, \h77, \h75, \hdb, \h36, \h16, \h70>> -> <<"Specular", "Map">>
    [] h = <<\h12, \h06, \h21, \hd5, \hfa, \hd4, \hc0, \h90>> -> <<"Specular", "MapB">>
    [] h = <<\h37, \h57, \h1b, \h60, \hb1, \hf6, \h11, \h80>> -> <<"Tangent", "MapB">>
    [] h = <<\ha4, \h52, \h00, \ha2, \h22, \hdc, \h2d, \h80>> -> <<"Thickness", "Map">>
    [] h = <<\h8c, \hf3, \h8a, \h52, \h66, \haa, \ha7, \ha4>> -> <<"TransitionNormal", "Map">>
    [] h = <<\h87, \hb5, \h79, \hec, \h01, \h8f, \hbd, \h4d>> -> <<"VisibilityMask", "Map">>
    [] h = <<\hd7, \hea, \h35, \h53, \h4d, \hbc, \h45, \h7d>> -> <<"WrinkleMask", "MapA">>
    [] h = <<\h10, \hfb, \h17, \h6f, \hb7, \h82, \h1e, \hc8>> -> <<"WrinkleMask", "MapB">>
    [] h = <<\hf3, \h40, \hc5, \h69, \h0c, \he9, \he0, \h59>> -> <<"WrinkleNormal", "Map">>
    [] h = <<\ha1, \h3d, \h14, \hfb, \hb4, \h36, \hf2, \h3b>> -> <<"WrinkleNormal", "Map">>
    [] OTHER -> <<"Unknown", "Unknown">>

TextureSize == 16

\* A variant of Texture::parse that keeps the kind and map of the usage hash
\* when the name is not resolved.
TextureParseKeepsKind(b, pos) ==
    LET tm == TextureTypeOf(U64At(b, pos))
        texture_hash == U64At(b, pos + 8)
    IN  [kind |-> tm[1], map |-> tm[2],
         name |-> IF HasMapping(texture_hash) THEN get_mapping(texture_hash) ELSE ""]

\* Texture::parse at pos (the 16 bytes are there).
TextureParse(b, pos) ==
    LET type_hash == U64At(b, pos)
        texture_hash == U64At(b, pos + 8)
        tm == TextureTypeOf(type_hash)
    IN  IF HasMapping(texture_hash)
        THEN [kind |-> tm[1], map |-> tm[2], name |-> get_mapping(texture_hash)]
        ELSE [kind |-> "Unknown", map |-> "Unknown", name |-> ""]

RECURSIVE TextureList(_, _, _)
TextureList(b, pos, n) ==
    IF n = 0 THEN <<>>
    ELSE <<TextureParse(b, pos)>> \o TextureList(b, pos + TextureSize, n - 1)

(***************************************************************************)
(* d3dmesh/materials.rs: Material::parse.                                  *)
(***************************************************************************)
\* The match on mat_section_hash: what the arm does with the cursor.
\*   seek    : no payload, a fixed seek correction (0 for the empty arms)
\*   entries : section_count entries of a fixed size, all discarded
\*   textures: section_count texture-usage records
\*   unknown : the `_` arm
MatSectionArm(h) ==
    CASE h = <<\h00, \h00, \h00, \h00, \h00, \h00, \h00, \h00>> -> [kind |-> "seek", n |-> 0]
      [] h = <<\ha9, \h8f, \h06, \h52, \h29, \h5d, \he6, \h85>> -> [kind |-> "seek", n |-> 0]
      [] h = <<\hfa, \h21, \he4, \hc8, \h8a, \he6, \h4d, \h31>> -> [kind |-> "seek", n |-> 0]
      [] h = <<\h25, \h4e, \hdc, \h51, \h7b, \h59, \hbb, \h47>> -> [kind |-> "seek", n |-> 0]
      [] h = <<\h7c, \hac, \hee, \hbc, \hd2, \h6d, \h07, \h5c>> -> [kind |-> "seek", n |-> 0]
      [] h = <<\hde, \hd5, \he1, \h93, \h7b, \h16, \h89, \hef>> -> [kind |-> "seek", n |-> 0]
      [] h = <<\h26, \h4a, \hc2, \hf2, \h54, \h4e, \h51, \h7c>> -> [kind |-> "seek", n |-> -4]
      [] h = <<\h87, \h3c, \h2f, \h18, \h35, \h42, \h82, \h97>> -> [kind |-> "seek", n |-> 8]
      [] h = <<\h4e, \h7d, \h91, \hf1, \h6f, \h97, \ha3, \hc2>> -> [kind |-> "seek", n |-> -4]
      [] h = <<\h18, \h1a, \hfb, \h3e, \hbb, \h8f, \h90, \hae>> -> [kind |-> "seek", n |-> 0]
      [] h = <<\hfe, \hc9, \hff, \hdf, \h25, \hb4, \h39, \h17>> -> [kind |-> "seek", n |-> -4]
      [] h = <<\h8c, \h44, \h85, \h8f, \h42, \hcd, \h32, \hd5>> -> [kind |-> "seek", n |-> 0]
      [] h = <<\hb7, \h6e, \h07, \hd6, \hbb, \h89, \h9b, \hfe>> -> [kind |-> "entries", n |-> 24]
      [] h = <<\h00, \h4f, \h02, \h34, \h63, \hd8, \h9f, \hb0>> -> [kind |-> "entries", n |-> 16]
      [] h = <<\hba, \he4, \hcb, \hd7, \h7f, \h13, \h9a, \h91>> -> [kind |-> "entries", n |-> 12]
      [] h = <<\h90, \h04, \hc5, \h58, \h75, \h75, \hd6, \hc0>> -> [kind |-> "entries", n |-> 9]
      [] h = <<\h39, \h4c, \h43, \haf, \h4f, \hf5, \h2c, \h94>> -> [kind |-> "entries", n |-> 20]
      [] h = <<\h7b, \hbc, \ha2, \h44, \he6, \h1f, \h1a, \h07>> -> [kind |-> "entries", n |-> 16]
      [] h = <<\hc1, \h67, \h62, \hf7, \h76, \h3d, \h62, \hab>> -> [kind |-> "entries", n |-> 24]
      [] h = <<\h52, \ha0, \h91, \h51, \hf1, \hc3, \hf2, \hc7>> -> [kind |-> "textures", n |-> TextureSize]
      [] h = <<\he2, \hba, \h74, \h3e, \h95, \h2f, \h93, \h38>> -> [kind |-> "entries", n |-> 24]
      [] OTHER -> [kind |-> "unknown", n |-> 0]

MatLoopErr(pos, textures) ==
    [st |-> "Err", pos |-> pos, textures |-> textures, brk |-> FALSE]

\* A variant of the `_` arm that returns the error its comment keeps.
MaterialUnknownHashReturnsErr(pos, textures) == MatLoopErr(pos, textures)

\* The `_` arm: warn and break out of the section loop.
MaterialUnknownHash(pos, textures) ==
    [st |-> "Ok", pos |-> pos, textures |-> textures, brk |-> TRUE]

\* `for _ in 0..mat_param_count`, n iterations left, the cursor at pos.
RECURSIVE MatSections(_, _, _, _)
MatSections(b, pos, n, textures) ==
    IF n = 0 THEN [st |-> "Ok", pos |-> pos, textures |-> textures, brk |-> FALSE]
    ELSE IF ~ReadOk(b, pos, 12) THEN MatLoopErr(pos, textures)
    ELSE
      LET mat_section_hash == U64At(b, pos)
          mat_section_count == U32At(b, pos + 8)
          p == pos + 12
          arm == MatSectionArm(mat_section_hash)
          size == mat_section_count * arm.n
      IN  CASE arm.kind = "seek" ->
                 IF SeekCurrentOk(p, arm.n)
                 THEN MatSections(b, p + arm.n, n - 1, textures)
                 ELSE MatLoopErr(p, textures)
            [] arm.kind = "entries" ->
                 IF mat_section_count <= Len(b) /\ ReadOk(b, p, size)
                 THEN MatSections(b, p + size, n - 1, textures)
                 ELSE MatLoopErr(p, textures)
            [] arm.kind = "textures" ->
                 IF mat_section_count <= Len(b) /\ ReadOk(b, p, size)
                 THEN MatSections(b, p + size, n - 1,
                                  textures \o TextureList(b, p, mat_section_count))
                 ELSE MatLoopErr(p, textures)
            [] OTHER -> MaterialUnknownHash(p, textures)

MatErr(pos) ==
    [st |-> "Err", pos |-> pos, material_id |-> <<>>, textures |-> <<>>,
     brk |-> FALSE, section_end |-> 0]

\* material_section_end (u32 arithmetic; the enumerated sizes stay far below 2^32).
MaterialSectionEnd(pos, material_header_size) == pos + material_header_size - 4

\* Material::parse with the cursor at p0.
MaterialParse(b, p0) ==
    IF ~ReadOk(b, p0, 20) THEN MatErr(p0)
    ELSE
      LET material_id == U64At(b, p0)
          material_header_size == U32At(b, p0 + 16)
          material_section_end == MaterialSectionEnd(p0 + 20, material_header_size)
          p1 == p0 + 32
      IN  IF ~ReadOk(b, p1, 4) THEN MatErr(p1)
          ELSE
            LET mat_unk_3_count == U32At(b, p1)
                p2 == p1 + 4 + 8 * mat_unk_3_count
            IN  IF mat_unk_3_count > Len(b) \/ ~ReadOk(b, p2, 4) THEN MatErr(p1)
                ELSE
                  LET mat_param_count == U32At(b, p2)
                      loop == MatSections(b, p2 + 4, mat_param_count, <<>>)
                  IN  IF loop.st # "Ok" THEN MatErr(loop.pos)
                      ELSE [st |-> "Ok", pos |-> material_section_end,
                            material_id |-> material_id, textures |-> loop.textures,
                            brk |-> loop.brk, section_end |-> material_section_end]

(***************************************************************************)
(* The enumerated material records.  A record is laid out field by field  *)
(* the way Material::parse consumes it: identity, two skip hashes, the     *)
(* declared length, three unknown words, the hash-set skip list and the    *)
(* tag-counted section list.                                               *)
(***************************************************************************)
MatIdA == <<\hca, \hfe, \h00, \h01, \h02, \h03, \h04, \h05>>
MatIdB == <<\h00, \h00, \h00, \h00, \h00, \h00, \h00, \h07>>

\* Texture-usage records and the Texture each is to decode to.
TexCases ==
    << [th |-> <<\h86, \h48, \hfa, \h82, \hd1, \hdb, \hee, \h1a>>,
        xh |-> <<\h11, \h22, \h33, \h44, \h55, \h66, \h77, \h88>>,
        exp |-> [kind |-> "Diffuse", map |-> "Map", name |-> "obj_a.d3dtx"]],
       [th |-> <<\h3f, \h38, \h00, \h50, \haf, \hd9, \hf8, \h1f>>,
        xh |-> <<\h0a, \h0b, \h0c, \h0d, \h0e, \h0f, \h10, \h11>>,
        exp |-> [kind |-> "Normal", map |-> "MapB", name |-> "obj_b_nm.d3dtx"]],
       [th |-> <<\h86, \h48, \hfa, \h82, \hd1, \hdb, \hee, \h1a>>,
        xh |-> <<\h99, \h99, \h99, \h99, \h99, \h99, \h99, \h99>>,
        exp |-> [kind |-> "Unknown", map |-> "Unknown", name |-> ""]],
       [th |-> <<\h01, \h01, \h01, \h01, \h01, \h01, \h01, \h01>>,
        xh |-> <<\h11, \h22, \h33, \h44, \h55, \h66, \h77, \h88>>,
        exp |-> [kind |-> "Unknown", map |-> "Unknown", name |-> "obj_a.d3dtx"]],
       [th |-> <<\hc8, \hc9, \h41, \h55, \hfb, \h7c, \h63, \h4b>>,
        xh |-> <<\h00, \h00, \h00, \h00, \h00, \h00, \h00, \h00>>,
        exp |-> [kind |-> "Unknown", map |-> "Unknown", name |-> ""]] >>

\* The i-th (0-based) record of a texture section that starts at case t.
TexCaseAt(t, i) == TexCases[((t - 1 + i) % Len(TexCases)) + 1]

SecKindHash(k) ==
    CASE k = "zero"    -> <<\h00, \h00, \h00, \h00, \h00, \h00, \h00, \h00>>
      [] k = "nothing" -> <<\ha9, \h8f, \h06, \h52, \h29, \h5d, \he6, \h85>>
      [] k = "back4"   -> <<\h26, \h4a, \hc2, \hf2, \h54, \h4e, \h51, \h7c>>
      [] k = "fwd8"    -> <<\h87, \h3c, \h2f, \h18, \h35, \h42, \h82, \h97>>
      [] k = "f4"      -> <<\hb7, \h6e, \h07, \hd6, \hbb, \h89, \h9b, \hfe>>
      [] k = "byte"    -> <<\h90, \h04, \hc5, \h58, \h75, \h75, \hd6, \hc0>>
      [] k = "tex"     -> <<\h52, \ha0, \h91, \h51, \hf1, \hc3, \hf2, \hc7>>
      [] k = "unknown" -> <<\hde, \had, \hbe, \hef, \h00, \h00, \h00, \h01>>

SecChoices ==
    { [k |-> "zero", c |-> 0, t |-> 1], [k |-> "nothing", c |-> 1, t |-> 1],
      [k |-> "back4", c |-> 0, t |-> 1], [k |-> "fwd8", c |-> 1, t |-> 1],
      [k |-> "tex", c |-> 0, t |-> 1] }
    \cup [k : {"f4", "byte"}, c : 0..MaxCount, t : {1}]
    \cup [k : {"tex"}, c : 1..MaxCount, t : 1..Len(TexCases)]
    \cup [k : {"unknown"}, c : 0..1, t : {1}]

RECURSIVE TexPayload(_, _, _)
TexPayload(t, i, c) ==
    IF i = c THEN <<>>
    ELSE LE64(TexCaseAt(t, i).th) \o LE64(TexCaseAt(t, i).xh) \o TexPayload(t, i + 1, c)

\* The bytes of one section as its arm consumes them.  A section whose arm
\* seeks back 4 bytes has no count field; the arm that seeks forward skips 8.
SecBytes(s) ==
    LE64(SecKindHash(s.k))
    \o (IF s.k = "back4" THEN <<>> ELSE LE32(s.c))
    \o (CASE s.k = "fwd8"    -> Fill(8, 238)
          [] s.k = "f4"      -> Fill(24 * s.c, 1)
          [] s.k = "byte"    -> Fill(9 * s.c, 1)
          [] s.k = "tex"     -> TexPayload(s.t, 0, s.c)
          [] s.k = "unknown" -> Fill(4 * s.c, 238)
          [] OTHER           -> <<>>)

RECURSIVE SecsBytes(_)
SecsBytes(secs) == IF secs = <<>> THEN <<>> ELSE SecBytes(Head(secs)) \o SecsBytes(Tail(secs))

SecLists == UNION { [1..n -> SecChoices] : n \in 0..MaxSections }

\* lead: bytes of the file before the record; delta: the declared length minus
\* the record's true length; cut: bytes missing at the end of the file.
MatVariants ==
    { [lead |-> 0, id |-> MatIdA, unk3 |-> 0], [lead |-> 3, id |-> MatIdB, unk3 |-> 1] }

MatDeltas == {-8, 0, 64}

MatCuts == {0, 13}

MatTail == Zeros(8)

MatBody(d) ==
    LE64(d.v.id) \o Zeros(8) \o LE32(d.size) \o Zeros(12)
    \o LE32(d.v.unk3) \o Fill(8 * d.v.unk3, 7)
    \o LE32(Len(d.secs)) \o SecsBytes(d.secs)

MatBodyLen(v, secs) == 40 + 8 * v.unk3 + Len(SecsBytes(secs))

MatDescs ==
    { [v |-> v, secs |-> secs, size |-> MatBodyLen(v, secs) - 16 + dl, cut |-> cut] :
        v \in MatVariants, secs \in SecLists, dl \in MatDeltas, cut \in MatCuts }

MatFile(d) ==
    LET all == Fill(d.v.lead, 255) \o MatBody(d) \o MatTail
    IN  SubSeq(all, 1, Len(all) - d.cut)

(***************************************************************************)
(* Specification: one material record is decoded.                          *)
(***************************************************************************)
InitMaterial ==
    /\ desc \in MatDescs
    /\ input = MatFile(desc)
    /\ ret = NoRet

ParseMaterial ==
    /\ ret = NoRet
    /\ ret' = MaterialParse(input, desc.v.lead)
    /\ UNCHANGED <<desc, input>>

NextMaterial == ParseMaterial

SpecMaterial == InitMaterial /\ [][NextMaterial]_vars

\* What the description says about the section list.
IsUnknownAt(secs, i) == secs[i].k = "unknown"

FirstUnknown(secs) ==
    IF \E i \in 1..Len(secs) : IsUnknownAt(secs, i)
    THEN CHOOSE i \in 1..Len(secs) :
           IsUnknownAt(secs, i) /\ \A j \in 1..(i - 1) : ~IsUnknownAt(secs, j)
    ELSE 0

RECURSIVE ExpectedTextures(_, _)
ExpectedTextures(secs, upto) ==
    IF upto = 0 THEN <<>>
    ELSE ExpectedTextures(secs, upto - 1)
         \o (IF secs[upto].k = "tex"
             THEN [i \in 1..secs[upto].c |-> TexCaseAt(secs[upto].t, i - 1).exp]
             ELSE <<>>)

\* The offset just past the (hash, count) pair of section i.
SectionHeadEnd(d, i) ==
    d.v.lead + 40 + 8 * d.v.unk3 + Len(SecsBytes(SubSeq(d.secs, 1, i - 1))) + 12

\* C1: when the section list holds an unknown hash and the file holds the bytes
\* up to it, Material::parse returns Ok with the material_id, exactly the
\* textures of the sections before the unknown one, and the cursor at the
\* offset just after the declared-length field + declared length - 4.
C1_UnknownHashStopsScan ==
    LET u == FirstUnknown(desc.secs)
    IN  (ret # NoRet /\ u > 0 /\ SectionHeadEnd(desc, u) <= Len(input))
        => /\ ret.st = "Ok"
           /\ ret.material_id = desc.v.id
           /\ ret.textures = ExpectedTextures(desc.secs, u - 1)
           /\ ret.pos = desc.v.lead + 20 + desc.size - 4

\* An unknown hash was met after a texture section, and the cursor left where
\* the scan stopped.
C1_Witness ==
    LET u == FirstUnknown(desc.secs)
    IN  /\ ret # NoRet /\ ret.st = "Ok" /\ ret.brk
        /\ u > 1
        /\ Len(ret.textures) > 0
        /\ ret.pos # SectionHeadEnd(desc, u)

(***************************************************************************)
(* byte_reading.rs: read_fixed_string and D3DName::parse.                  *)
(***************************************************************************)
MaxHdr == 5           \* declared header length of a name header
MaxTail == 6          \* bytes of the file after the two length fields

\* std::str::from_utf8 accepts s[i..] (i is 1-based).
RECURSIVE Utf8From(_, _)
Utf8From(s, i) ==
    LET n == Len(s)
        Cont(k) == k <= n /\ s[k] >= 128 /\ s[k] <= 191
        In(k, lo, hi) == k <= n /\ s[k] >= lo /\ s[k] <= hi
        c == s[i]
    IN  IF i > n THEN TRUE
        ELSE IF c <= 127 THEN Utf8From(s, i + 1)
        ELSE IF c >= 194 /\ c <= 223 THEN Cont(i + 1) /\ Utf8From(s, i + 2)
        ELSE IF c = 224 THEN In(i + 1, 160, 191) /\ Cont(i + 2) /\ Utf8From(s, i + 3)
        ELSE IF c = 237 THEN In(i + 1, 128, 159) /\ Cont(i + 2) /\ Utf8From(s, i + 3)
        ELSE IF c >= 225 /\ c <= 239 THEN Cont(i + 1) /\ Cont(i + 2) /\ Utf8From(s, i + 3)
        ELSE IF c = 240
             THEN In(i + 1, 144, 191) /\ Cont(i + 2) /\ Cont(i + 3) /\ Utf8From(s, i + 4)
        ELSE IF c >= 241 /\ c <= 243
             THEN Cont(i + 1) /\ Cont(i + 2) /\ Cont(i + 3) /\ Utf8From(s, i + 4)
        ELSE IF c = 244
             THEN In(i + 1, 128, 143) /\ Cont(i + 2) /\ Cont(i + 3) /\ Utf8From(s, i + 4)
        ELSE FALSE

Utf8Valid(s) == Utf8From(s, 1)

Max(a, b) == IF a >= b THEN a ELSE b

\* read_fixed_string(input, size) at pos.  hi is the end of the last byte read
\* so far (a short read consumes what is left of the buffer).
read_fixed_string(b, pos, size, hi) ==
    IF ~ReadOk(b, pos, size)
    THEN [st |-> "Err", pos |-> pos, name |-> <<>>, hi |-> Max(hi, Len(b))]
    ELSE IF ~Utf8Valid(Bytes(b, pos, size))
    THEN [st |-> "Err", pos |-> pos + size, name |-> <<>>, hi |-> Max(hi, pos + size)]
    ELSE [st |-> "Ok", pos |-> pos + size, name |-> Bytes(b, pos, size),
          hi |-> Max(hi, pos + size)]

\* A variant of the offset fix that leaves the cursor after the name-length field.
NameFixNoSeek(pos) == pos

\* `input.seek(SeekFrom::Current(-0x04))`: the cursor after the quiet offset fix.
NameFixSeek(pos) == pos - 4

\* D3DName::parse with the cursor at p0; fixed tells that the offsets were fixed.
D3DNameParse(b, p0) ==
    IF ~ReadOk(b, p0, 8)
    THEN [st |-> "Err", pos |-> p0, name |-> <<>>, hi |-> Len(b), fixed |-> FALSE]
    ELSE
      LET header_length == U32At(b, p0)
          name_length == U32At(b, p0 + 4)
          fix == name_length > header_length
          start == IF fix THEN NameFixSeek(p0 + 8) ELSE p0 + 8
          size == IF fix THEN header_length ELSE name_length
          r == read_fixed_string(b, start, size, p0 + 8)
      IN  [st |-> r.st, pos |-> r.pos, name |-> r.name, hi |-> r.hi, fixed |-> fix]

\* The enumerated name headers: the header-length field hl, the four bytes nlb
\* of the name-length field, and tail further bytes, the bad-th of them (if any)
\* not valid UTF-8.
NameLenFields ==
    { LE32(n) : n \in 0..(MaxHdr + 1) } \cup { <<111, 98, 106, 95>>, <<255, 0, 0, 16>> }

NameTail(n, bad) == [i \in 1..n |-> IF i = bad THEN 255 ELSE 96 + i]

NameDescs ==
    [lead : {0, 2}, hl : 0..MaxHdr, nlb : NameLenFields, tail : 0..MaxTail, bad : {0, 1}]

NameFile(d) ==
    Fill(d.lead, 255) \o LE32(d.hl) \o d.nlb \o NameTail(d.tail, d.bad)

InitName ==
    /\ desc \in NameDescs
    /\ input = NameFile(desc)
    /\ ret = NoRet

ParseName ==
    /\ ret = NoRet
    /\ ret' = D3DNameParse(input, desc.lead)
    /\ UNCHANGED <<desc, input>>

NextName == ParseName

SpecName == InitName /\ [][NextName]_vars

\* What the description says: the declared name length exceeds the declared
\* header length, and the hl bytes from the name-length field on.
NameLenOf(d) ==
    IF d.nlb[4] >= 16 THEN U32Huge ELSE d.nlb[1] + 256 * d.nlb[2]

NameMismatch(d) == NameLenOf(d) > d.hl

NameFromLenField(d) == SubSeq(d.nlb \o NameTail(d.tail, d.bad), 1, d.hl)

NameAscii(s) == \A i \in 1..Len(s) : s[i] <= 127

\* C6 as stated: on a mismatch no error is raised, header_length bytes are read
\* as the name from the name-length field on, and the read of the name takes no
\* byte beyond the header length, counted from the start of the header.
C6_NoReadPastHeaderLength ==
    (ret # NoRet /\ NameMismatch(desc) /\ ret.st = "Ok" /\ desc.hl > 0)
    => /\ ret.fixed
       /\ Len(ret.name) = desc.hl
       /\ ret.pos <= desc.lead + desc.hl

\* C6 amended: on a mismatch, when the file holds header_length bytes of valid
\* text from the name-length field on, the result is Ok, the name is exactly
\* those bytes (offsets 4 .. 4 + header_length of the header), the cursor ends
\* at offset 4 + header_length and no byte at or past offset
\* max(8, 4 + header_length) is read.
C6_NameReadFromLengthField ==
    (ret # NoRet /\ NameMismatch(desc) /\ desc.hl <= 4 + desc.tail
     /\ NameAscii(NameFromLenField(desc)))
    => /\ ret.st = "Ok"
       /\ ret.fixed
       /\ ret.name = NameFromLenField(desc)
       /\ ret.pos = desc.lead + 4 + desc.hl
       /\ ret.hi = Max(desc.lead + 8, desc.lead + 4 + desc.hl)

\* A mismatching header was decoded and its name runs past the length fields.
C6_Witness ==
    /\ ret # NoRet /\ NameMismatch(desc) /\ ret.st = "Ok" /\ ret.fixed
    /\ Len(ret.name) = desc.hl /\ desc.hl > 4
    /\ ret.hi > desc.lead + desc.hl

(***************************************************************************)
(* d3dmesh/mesh.rs: Mesh::parse.                                           *)
(*                                                                         *)
(* A decoded per-vertex value (a position, a weight quadruple, a normal,   *)
(* a UV pair) is represented by the stream offset it was decoded from; a   *)
(* face by its three indices, a bone record by its four slot bytes.        *)
(***************************************************************************)
ChannelOrder ==
    <<"position", "weights", "bones", "normals", "tangents", "binormals", "uv5", "uv6",
      "colors", "colors2", "uv1", "uv2", "uv3", "uv4">>

Channels == { ChannelOrder[i] : i \in 1..Len(ChannelOrder) }

UvChannels == {"uv1", "uv2", "uv3", "uv4", "uv5", "uv6"}

\* A variant of the layout match that takes every pair it does not enumerate
\* for the second colour channel.
LayoutChannelAcceptsAll(type, layer) ==
    CASE type = 1 /\ layer = 1 -> "position"
      [] type = 7 /\ layer = 1 -> "uv1"
      [] type = 2 /\ layer = 1 -> "normals"
      [] type = 5 /\ layer = 1 -> "bones"
      [] OTHER -> "colors2"

\* `match (vert_type, vert_layer)`: the channel of a layout-table entry.
LayoutChannel(type, layer) ==
    CASE type = 1 /\ layer = 1 -> "position"
      [] type = 4 /\ layer = 1 -> "weights"
      [] type = 5 /\ layer = 1 -> "bones"
      [] type = 2 /\ layer = 1 -> "normals"
      [] type = 3 /\ layer = 1 -> "tangents"
      [] type = 2 /\ layer = 2 -> "binormals"
      [] type = 7 /\ layer = 5 -> "uv5"
      [] type = 7 /\ layer = 6 -> "uv6"
      [] type = 6 /\ layer = 1 -> "colors"
      [] type = 6 /\ layer = 2 -> "colors2"
      [] type = 7 /\ layer = 1 -> "uv1"
      [] type = 7 /\ layer = 2 -> "uv2"
      [] type = 7 /\ layer = 3 -> "uv3"
      [] type = 7 /\ layer = 4 -> "uv4"
      [] OTHER -> "none"

\* The bytes one value of a channel takes in a format, 0 for a format the
\* channel's match does not enumerate.
FormatSize(ch, format) ==
    CASE ch = "position" ->
           (CASE format = 4 -> 12 [] format = 27 -> 8 [] format = 42 -> 4 [] OTHER -> 0)
      [] ch = "weights" -> (CASE format = 27 -> 8 [] format = 42 -> 4 [] OTHER -> 0)
      [] ch = "bones" -> (CASE format = 33 -> 4 [] OTHER -> 0)
      [] ch = "normals" -> (CASE format = 38 -> 4 [] format = 26 -> 8 [] OTHER -> 0)
      [] ch \in {"tangents", "binormals"} -> (CASE format = 38 -> 4 [] OTHER -> 0)
      [] ch \in {"colors", "colors2"} -> (CASE format \in {33, 39} -> 4 [] OTHER -> 0)
      [] ch \in UvChannels ->
           (CASE format = 3 -> 8 [] format = 24 -> 4 [] format = 25 -> 4 [] OTHER -> 0)

NoLayout == [ch \in Channels |-> [has |-> 0, format |-> 0]]

NoArrays == [ch \in Channels |-> <<>>]

MeshErrAt(pos, why) ==
    [st |-> "Err", pos |-> pos, err |-> why, positions |-> <<>>, normals |-> <<>>,
     faces |-> <<>>, uv |-> <<>>, bones |-> <<>>, weights |-> <<>>, face_end |-> 0,
     main_start |-> 0]

MeshPanicAt(pos, why) == [MeshErrAt(pos, why) EXCEPT !.st = "Panic"]

IoErr == [kind |-> "io"]

\* The layout-table loop, n entries left; tab holds has_* and *_format.
RECURSIVE MeshLayout(_, _, _, _)
MeshLayout(b, pos, n, tab) ==
    IF n = 0 THEN [st |-> "Ok", pos |-> pos, tab |-> tab, err |-> IoErr]
    ELSE IF ~ReadOk(b, pos, 20) THEN [st |-> "Err", pos |-> pos, tab |-> tab, err |-> IoErr]
    ELSE
      LET vert_type == U32At(b, pos) + 1
          vert_format == U32At(b, pos + 4) + 1
          vert_layer == U32At(b, pos + 8) + 1
          vert_buff_num == U32At(b, pos + 12) + 1
          ch == LayoutChannel(vert_type, vert_layer)
      IN  IF ch = "none"
          THEN [st |-> "Err", pos |-> pos + 20, tab |-> tab,
                err |-> [kind |-> "layout", type |-> vert_type, layer |-> vert_layer]]
          ELSE MeshLayout(b, pos + 20, n - 1,
                          [tab EXCEPT ![ch] = [has |-> vert_buff_num, format |-> vert_format]])

\* The face-buffer loop, iteration i of face_buffer_count; cnt holds
\* face_point_count and face_point_count_b.
RECURSIVE MeshFaceBuffers(_, _, _, _, _)
MeshFaceBuffers(b, pos, i, face_buffer_count, cnt) ==
    IF i = face_buffer_count THEN [st |-> "Ok", pos |-> pos, cnt |-> cnt]
    ELSE IF ~ReadOk(b, pos + 12, 8) THEN [st |-> "Err", pos |-> pos, cnt |-> cnt]
    ELSE IF i >= 2 THEN [st |-> "Panic", pos |-> pos + 20, cnt |-> cnt]
    ELSE MeshFaceBuffers(b, pos + 20, i + 1, face_buffer_count,
                         [cnt EXCEPT ![i + 1] = U32At(b, pos + 12)])

\* n values of the given size can be read at pos (nothing is read for n = 0).
ArrayOk(b, pos, n, size) == n = 0 \/ (n <= Len(b) /\ ReadOk(b, pos, n * size))

Offsets(pos, n, size) == [i \in 1..n |-> pos + (i - 1) * size]

FaceAt(b, pos) == <<U16At(b, pos), U16At(b, pos + 2), U16At(b, pos + 4)>>

BoneInfoAt(b, pos) == Bytes(b, pos, 4)

\* A variant of the vert_flags match that accepts every flag value.
MeshFlagsAcceptAll(vert_flags) == IF vert_flags = 49 THEN "extra" ELSE "plain"

\* `match vert_flags`: the accepted values, the 0x31 sentinel, the rest.
MeshFlags(vert_flags) ==
    CASE vert_flags \in {0, 1, 3, 5, 9, 33} -> "plain"
      [] vert_flags = 49 -> "extra"
      [] OTHER -> "unknown"

\* One channel of the main pass.  m carries the cursor and the arrays read so far.
MeshChannel(b, vert_count, tab, m, ch) ==
    LET size == FormatSize(ch, tab[ch].format)
        bad == [m EXCEPT !.st = "Err",
                         !.err = [kind |-> "format", chan |-> ch, code |-> tab[ch].format]]
        short == [m EXCEPT !.st = "Err", !.err = IoErr]
        vals == IF ch = "bones"
                THEN [i \in 1..vert_count |-> BoneInfoAt(b, m.pos + (i - 1) * size)]
                ELSE Offsets(m.pos, vert_count, size)
        read == IF ArrayOk(b, m.pos, vert_count, size)
                THEN [m EXCEPT !.pos = m.pos + vert_count * size, !.arr[ch] = vals]
                ELSE short
    IN  IF tab[ch].has = 0 THEN m
        ELSE IF ch \in UvChannels
        \* parse_uv_list matches the format once per vertex
        THEN (IF vert_count = 0 THEN m ELSE IF size = 0 THEN bad ELSE read)
        ELSE (IF size = 0 THEN bad ELSE read)

RECURSIVE MeshChannels(_, _, _, _, _)
MeshChannels(b, vert_count, tab, m, i) ==
    IF i > Len(ChannelOrder) \/ m.st # "Ok" THEN m
    ELSE MeshChannels(b, vert_count, tab,
                      MeshChannel(b, vert_count, tab, m, ChannelOrder[i]), i + 1)

NonEmpty(seqs) == SelectSeq(seqs, LAMBDA s : Len(s) > 0)

\* A variant of the second face buffer that is declared and never read.
FaceCountBNotRead(face_buffer_count, face_point_count_b) == 0

\* The triangles read for face buffer B: none unless two buffers are declared.
FaceCountB(face_buffer_count, face_point_count_b) ==
    IF face_buffer_count = 2 THEN face_point_count_b \div 3 ELSE 0

\* A variant of the translation that gives every slot the first bone id.
BoneIdFirst(bone_ids, slot) == bone_ids[1]

\* `bone_ids[bone_info.bone_n as usize]`.
BoneId(bone_ids, slot) == bone_ids[slot + 1]

\* A variant of the 0x31 pass that leaves the cursor where the pass ended.
ExtraPassNotRestored(vert_start_b, pass_end) == pass_end

\* `input.seek(SeekFrom::Start(vert_start_b))` after the 0x31 pass.
ExtraPassRestore(vert_start_b, pass_end) == vert_start_b

\* Mesh::parse with the cursor at p0.
MeshParse(b, p0, face_data_start, vert_start, vert_flags, vert_count, bone_ids) ==
    IF ~ReadOk(b, p0 + 8, 12) THEN MeshErrAt(p0 + 8, IoErr)
    ELSE
      LET face_buffer_count == U32At(b, p0 + 8)
          buffer_count_1 == U32At(b, p0 + 12)
          lay == MeshLayout(b, p0 + 20, buffer_count_1, NoLayout)
          fb == MeshFaceBuffers(b, lay.pos, 0, face_buffer_count, <<0, 0>>)
          na == fb.cnt[1] \div 3
          nb == FaceCountB(face_buffer_count, fb.cnt[2])
          faces == [i \in 1..na |-> FaceAt(b, face_data_start + 6 * (i - 1))]
          face_end == face_data_start + 6 * (na + nb)
          flags == MeshFlags(vert_flags)
          extra == flags = "extra"
          \* the 0x31 pass: vert_count records of 24 bytes from vert_start
          pre_pos == IF extra THEN Offsets(vert_start, vert_count, 24) ELSE <<>>
          pre_bones == IF extra
                       THEN [i \in 1..vert_count |->
                               BoneInfoAt(b, vert_start + 24 * (i - 1) + 12)]
                       ELSE <<>>
          main_start == IF extra
                        THEN ExtraPassRestore(face_end, vert_start + 24 * vert_count)
                        ELSE face_end
          m == MeshChannels(b, vert_count, lay.tab,
                            [st |-> "Ok", pos |-> main_start, err |-> IoErr, arr |-> NoArrays], 1)
          bones_infos == pre_bones \o m.arr["bones"]
      IN  IF lay.st # "Ok" THEN MeshErrAt(lay.pos, lay.err)
          ELSE IF fb.st = "Err" THEN MeshErrAt(fb.pos, IoErr)
          ELSE IF fb.st = "Panic" THEN MeshPanicAt(fb.pos, [kind |-> "unreachable"])
          ELSE IF ~(na <= Len(b) /\ nb <= Len(b) /\ ArrayOk(b, face_data_start, na + nb, 6))
          THEN MeshErrAt(face_data_start, IoErr)
          ELSE IF flags = "unknown"
          THEN MeshErrAt(face_end, [kind |-> "flags", code |-> vert_flags])
          ELSE IF extra /\ vert_count > 0
                  /\ ~(vert_count <= Len(b) /\ ReadOk(b, vert_start + 24 * (vert_count - 1), 16))
          THEN MeshErrAt(vert_start, IoErr)
          ELSE IF m.st # "Ok" THEN MeshErrAt(m.pos, m.err)
          ELSE IF \E i \in 1..Len(bones_infos) : \E k \in 1..4 :
                     bones_infos[i][k] >= Len(bone_ids)
          THEN MeshPanicAt(m.pos, [kind |-> "index"])
          ELSE [st |-> "Ok", pos |-> m.pos, err |-> IoErr,
                positions |-> pre_pos \o m.arr["position"],
                normals |-> m.arr["normals"],
                faces |-> faces,
                uv |-> NonEmpty(<<m.arr["uv1"], m.arr["uv2"], m.arr["uv3"], m.arr["uv4"],
                                  m.arr["uv5"], m.arr["uv6"]>>),
                bones |-> [i \in 1..Len(bones_infos) |->
                             [k \in 1..4 |-> BoneId(bone_ids, bones_infos[i][k])]],
                weights |-> m.arr["weights"],
                face_end |-> face_end,
                main_start |-> main_start]

(***************************************************************************)
(* Mesh sections the decoder is run on.  A description holds the layout    *)
(* table (values as the decoder sees them, the file stores each minus      *)
(* one), the face buffers, vert_flags, vert_count, the largest bone slot   *)
(* used and the number of bytes cut off the end.                           *)
(***************************************************************************)
MaxLayout == 2
MaxVerts == 2

LayoutEntry(ch, type, layer, format, size) ==
    [ch |-> ch, type |-> type, layer |-> layer, format |-> format, size |-> size]

\* Entries that may be combined with one another.
LayoutCore ==
    { LayoutEntry("position", 1, 1, 4, 12), LayoutEntry("position", 1, 1, 5, 0),
      LayoutEntry("bones", 5, 1, 33, 4), LayoutEntry("normals", 2, 1, 38, 4),
      LayoutEntry("uv1", 7, 1, 3, 8), LayoutEntry("uv1", 7, 1, 4, 0),
      LayoutEntry("none", 8, 1, 4, 0) }

\* Entries that are tried on their own.
LayoutSingles ==
    { LayoutEntry("position", 1, 1, 27, 8), LayoutEntry("position", 1, 1, 42, 4),
      LayoutEntry("weights", 4, 1, 27, 8), LayoutEntry("weights", 4, 1, 42, 4),
      LayoutEntry("weights", 4, 1, 4, 0), LayoutEntry("bones", 5, 1, 27, 0),
      LayoutEntry("normals", 2, 1, 26, 8), LayoutEntry("normals", 2, 1, 4, 0),
      LayoutEntry("tangents", 3, 1, 38, 4), LayoutEntry("tangents", 3, 1, 26, 0),
      LayoutEntry("binormals", 2, 2, 38, 4), LayoutEntry("binormals", 2, 2, 26, 0),
      LayoutEntry("colors", 6, 1, 33, 4), LayoutEntry("colors", 6, 1, 39, 4),
      LayoutEntry("colors", 6, 1, 3, 0), LayoutEntry("colors2", 6, 2, 39, 4),
      LayoutEntry("colors2", 6, 2, 38, 0), LayoutEntry("uv1", 7, 1, 24, 4),
      LayoutEntry("uv1", 7, 1, 25, 4), LayoutEntry("uv2", 7, 2, 3, 8),
      LayoutEntry("uv2", 7, 2, 33, 0), LayoutEntry("uv3", 7, 3, 24, 4),
      LayoutEntry("uv4", 7, 4, 25, 4), LayoutEntry("uv5", 7, 5, 3, 8),
      LayoutEntry("uv5", 7, 5, 38, 0), LayoutEntry("uv6", 7, 6, 3, 8),
      LayoutEntry("none", 7, 7, 3, 0), LayoutEntry("none", 1, 2, 4, 0) }

SeqsUpTo(S, n) == UNION { [1..k -> S] : k \in 0..n }

MeshLayouts == SeqsUpTo(LayoutCore, MaxLayout) \cup { <<e>> : e \in LayoutSingles }

\* face_buffer_count, the two point counts and buffer_count_2.
FaceCfg(fbc, fa, fb, bc2) == [fbc |-> fbc, fa |-> fa, fb |-> fb, bc2 |-> bc2]

MeshFaceCfgs ==
    { FaceCfg(0, 0, 0, 0), FaceCfg(0, 0, 0, 1), FaceCfg(1, 3, 0, 1), FaceCfg(2, 4, 3, 0),
      FaceCfg(2, 7, 5, 1), FaceCfg(3, 3, 3, 0) }

MeshFlagValues == {1, 49, 2}

MeshCuts == {0, 5}

BoneIdA == <<\h10, \h20, \h30, \h40, \h50, \h60, \h70, \h80>>
BoneIdB == <<\h01, \h02, \h03, \h04, \h05, \h06, \h07, \h08>>

MeshBoneIds == <<BoneIdA, BoneIdB>>

MeshDescs ==
    [layout : MeshLayouts, face : MeshFaceCfgs, vert_flags : MeshFlagValues,
     vert_count : 0..MaxVerts, slot : {1, 2}, cut : MeshCuts]

\* The slot bytes of bone record i: the first differs from record to record.
SlotBytes(d, i) == <<i % 2, d.slot, 0, 1>>

\* The entry that decides a channel: the last one naming it (0 when none does).
RECURSIVE LastEntry(_, _, _)
LastEntry(layout, ch, i) ==
    IF i = 0 THEN 0 ELSE IF layout[i].ch = ch THEN i ELSE LastEntry(layout, ch, i - 1)

Declared(d, ch) == LastEntry(d.layout, ch, Len(d.layout)) > 0

DeclaredEntry(d, ch) == d.layout[LastEntry(d.layout, ch, Len(d.layout))]

KnownLayout(d) == \A i \in 1..Len(d.layout) : d.layout[i].ch # "none"

\* The 24-byte records of vertex buffer A, present under the 0x31 flags.
MeshBufA(d) ==
    IF d.vert_flags = 49
    THEN Concat([i \in 1..d.vert_count |-> Fill(12, i) \o SlotBytes(d, i) \o Zeros(8)])
    ELSE <<>>

MeshHeader(d) ==
    Zeros(8) \o LE32(d.face.fbc) \o LE32(Len(d.layout)) \o LE32(d.face.bc2)
    \o Concat([i \in 1..Len(d.layout) |->
                 LE32(d.layout[i].type - 1) \o LE32(d.layout[i].format - 1)
                 \o LE32(d.layout[i].layer - 1) \o LE32(0) \o LE32(0)])
    \o Concat([i \in 1..d.face.fbc |->
                 Zeros(12) \o LE32(IF i = 1 THEN d.face.fa ELSE d.face.fb) \o LE32(0)])
    \o Zeros(20 * d.face.bc2)

MeshFaceCount(d) ==
    (IF d.face.fbc >= 1 THEN d.face.fa \div 3 ELSE 0)
    + (IF d.face.fbc = 2 THEN d.face.fb \div 3 ELSE 0)

MeshFaceData(d) ==
    Concat([i \in 1..MeshFaceCount(d) |-> LE16(i) \o LE16(i + 1) \o LE16(i + 2)])

MeshChannelData(d, ch) ==
    IF ~Declared(d, ch) THEN <<>>
    ELSE IF ch = "bones" /\ DeclaredEntry(d, ch).size = 4
    THEN Concat([i \in 1..d.vert_count |-> SlotBytes(d, i + 1)])
    ELSE Fill(d.vert_count * DeclaredEntry(d, ch).size, 7)

MeshVertexData(d) == Concat([i \in 1..Len(ChannelOrder) |-> MeshChannelData(d, ChannelOrder[i])])

MeshWhole(d) == MeshBufA(d) \o MeshHeader(d) \o MeshFaceData(d) \o MeshVertexData(d)

MeshFile(d) ==
    LET w == MeshWhole(d) IN SubSeq(w, 1, IF Len(w) > d.cut THEN Len(w) - d.cut ELSE 0)

MeshP0(d) == Len(MeshBufA(d))

MeshFaceDataStart(d) == Len(MeshBufA(d)) + Len(MeshHeader(d))

InitMesh ==
    /\ desc \in MeshDescs
    /\ input = MeshFile(desc)
    /\ ret = NoRet

\* Mesh::parse is called on the section.
ParseMesh ==
    /\ ret = NoRet
    /\ ret' = MeshParse(input, MeshP0(desc), MeshFaceDataStart(desc), 0,
                        desc.vert_flags, desc.vert_count, MeshBoneIds)
    /\ UNCHANGED <<desc, input>>

NextMesh == ParseMesh

SpecMesh == InitMesh /\ [][NextMesh]_vars

\* C3: after a successful Mesh::parse the positions, normals, bones and weights
\* each hold vert_count values or none, and every UV layer kept holds vert_count
\* values, the 0x31 flags with a declared position or bone channel included.
C3_ArrayLengths ==
    (ret # NoRet /\ ret.st = "Ok")
    => /\ Len(ret.positions) \in {0, desc.vert_count}
       /\ Len(ret.normals) \in {0, desc.vert_count}
       /\ Len(ret.bones) \in {0, desc.vert_count}
       /\ Len(ret.weights) \in {0, desc.vert_count}
       /\ \A i \in 1..Len(ret.uv) : Len(ret.uv[i]) = desc.vert_count

\* The lengths Mesh::parse returns: the 0x31 pass and the declared channel both
\* append to positions and to the bone records.
C3_LengthsAsBuilt ==
    (ret # NoRet /\ ret.st = "Ok")
    => LET pre == IF desc.vert_flags = 49 THEN desc.vert_count ELSE 0
           own(ch) == IF Declared(desc, ch) THEN desc.vert_count ELSE 0
       IN  /\ Len(ret.positions) = pre + own("position")
           /\ Len(ret.bones) = pre + own("bones")
           /\ Len(ret.normals) = own("normals")
           /\ Len(ret.weights) = own("weights")
           /\ \A i \in 1..Len(ret.uv) : Len(ret.uv[i]) = desc.vert_count

\* C9: a read or a seek past the end of the input buffer makes the decode fail,
\* so a mesh decode that succeeded has left the cursor within the buffer.
C9_PastEndFails ==
    (ret # NoRet /\ ret.st = "Ok") => ret.pos <= Len(input)

\* A declared channel whose format its match does not enumerate.
BadFormat(d, ch) == Declared(d, ch) /\ DeclaredEntry(d, ch).size = 0

\* C10: a declared channel with a format code its match does not enumerate makes
\* Mesh::parse fail, with vert_count = 0 as with any other count.
C10_UnknownFormatFails ==
    (ret # NoRet /\ \E ch \in Channels : BadFormat(desc, ch)) => ret.st # "Ok"

\* C10 for vert_count > 0, and for every channel but the UV layers at any count.
C10_UnknownFormatFailsWithVertices ==
    (ret # NoRet /\ \E ch \in Channels :
                      BadFormat(desc, ch) /\ (desc.vert_count > 0 \/ ch \notin UvChannels))
    => ret.st # "Ok"

\* The place in the layout table of the first entry whose pair is not enumerated.
FirstUnknownEntry(d) ==
    CHOOSE k \in 1..Len(d.layout) :
        d.layout[k].ch = "none" /\ \A j \in 1..(k - 1) : d.layout[j].ch # "none"

\* C11: a layout table with an entry whose (type, layer) pair is not one of the
\* 14 enumerated pairs makes Mesh::parse return an error and no mesh; when the
\* entry could be read the error names its pair and the cursor stands right
\* after that entry, before the face-buffer entries and all face and vertex data.
C11_UnknownPairFails ==
    (ret # NoRet /\ ~KnownLayout(desc))
    => LET k == FirstUnknownEntry(desc)
           after == MeshP0(desc) + 20 + 20 * k
       IN  /\ ret.st = "Err"
           /\ ret.positions = <<>> /\ ret.faces = <<>> /\ ret.normals = <<>>
           /\ ret.uv = <<>> /\ ret.bones = <<>> /\ ret.weights = <<>>
           /\ ret.pos <= after
           /\ after <= MeshFaceDataStart(desc)
           /\ after <= Len(input)
              => /\ ret.pos = after
                 /\ ret.err = [kind |-> "layout", type |-> desc.layout[k].type,
                               layer |-> desc.layout[k].layer]

C11_Witness ==
    /\ ret # NoRet
    /\ ret.st = "Err"
    /\ ret.err.kind = "layout"
    /\ Len(desc.layout) = 2
    /\ desc.layout[1].ch = "position"
    /\ desc.layout[2].ch = "none"
    /\ desc.face.fa >= 3
    /\ desc.vert_count > 0
    /\ ret.pos < MeshFaceDataStart(desc)

\* The layout table declares the position channel, in an enumerated format, and
\* nothing else; the face buffers are at most two and no byte is missing.
PositionOnly(d) ==
    /\ Len(d.layout) = 1
    /\ d.layout[1].ch = "position"
    /\ d.layout[1].size > 0
    /\ d.face.fbc <= 2
    /\ d.cut = 0

PositionOnlyResult(r, d) ==
    /\ r.st = "Ok"
    /\ Len(r.positions) = d.vert_count
    /\ r.normals = <<>> /\ r.uv = <<>> /\ r.weights = <<>> /\ r.bones = <<>>

\* C15 as stated: a mesh that declares only the position channel and whose
\* vert_flags is any value but 0x31 decodes to vert_count positions and empty
\* normals, uv, weights and bones.
C15_PositionOnlyAnyFlags ==
    (ret # NoRet /\ PositionOnly(desc) /\ desc.vert_flags # 49)
    => PositionOnlyResult(ret, desc)

\* C15 for the vert_flags values Mesh::parse accepts: a mesh that declares only
\* the position channel and whose vert_flags is one of 0x00, 0x01, 0x03, 0x05,
\* 0x09, 0x21 decodes to vert_count positions and empty normals, uv, weights
\* and bones; any other value but 0x31 is an error.
C15_PositionOnly ==
    (ret # NoRet /\ PositionOnly(desc) /\ desc.vert_flags # 49)
    => IF desc.vert_flags \in {0, 1, 3, 5, 9, 33}
       THEN PositionOnlyResult(ret, desc)
       ELSE ret.st = "Err" /\ ret.err = [kind |-> "flags", code |-> desc.vert_flags]

C15_Witness ==
    /\ ret # NoRet
    /\ PositionOnly(desc)
    /\ desc.vert_flags = 1
    /\ desc.vert_count = MaxVerts
    /\ desc.face.fa >= 3
    /\ PositionOnlyResult(ret, desc)

\* The triangle the section holds at place i of its face data.
FaceTriangle(i) == <<i, i + 1, i + 2>>

\* The face data could be read: the layout table and the face-buffer entries
\* were accepted and the triangles are all in the buffer.
FacesRead(d) ==
    /\ KnownLayout(d)
    /\ d.face.fbc <= 2
    /\ MeshFaceDataStart(d) + 6 * MeshFaceCount(d) <= Len(MeshFile(d))

\* C20: faces holds the floor(count_A / 3) triangles of the first buffer in
\* stream order and none of the second; the cursor after the face data is
\* face_data_start + 6 * (floor(count_A / 3) + floor(count_B / 3)), count_B
\* taken as 0 unless two buffers are declared.
C20_FaceData ==
    (ret # NoRet /\ FacesRead(desc))
    => LET na == IF desc.face.fbc >= 1 THEN desc.face.fa \div 3 ELSE 0
           nb == IF desc.face.fbc = 2 THEN desc.face.fb \div 3 ELSE 0
           end == MeshFaceDataStart(desc) + 6 * (na + nb)
       IN  /\ ret.st = "Ok" => ret.faces = [i \in 1..na |-> FaceTriangle(i)]
           /\ ret.st = "Ok" => ret.face_end = end
           /\ (ret.st = "Ok" /\ (desc.layout = <<>> \/ desc.vert_count = 0)) => ret.pos = end
           /\ (ret.st = "Err" /\ ret.err.kind = "flags") => ret.pos = end

C20_Witness ==
    /\ ret # NoRet
    /\ ret.st = "Ok"
    /\ desc.face = FaceCfg(2, 7, 5, 1)
    /\ ret.faces = <<FaceTriangle(1), FaceTriangle(2)>>
    /\ ret.pos = MeshFaceDataStart(desc) + 18
    /\ Len(input) >= ret.pos

\* C21: with vert_flags 0x31 vert_count (position, bone-slot) records are read
\* from vert_start ahead of the main pass and the main pass starts where the
\* cursor stood after the face data; with another accepted value nothing is
\* read and the cursor stays; every other value is the flags error.
C21_ExtraPassRestoresCursor ==
    (ret # NoRet /\ FacesRead(desc))
    => LET end == MeshFaceDataStart(desc) + 6 * MeshFaceCount(desc)
           main == IF Declared(desc, "position") THEN desc.vert_count ELSE 0
       IN  IF desc.vert_flags = 49
           THEN ret.st = "Ok"
                => /\ ret.main_start = end
                   /\ ret.pos = end + Len(MeshVertexData(desc))
                   /\ Len(ret.positions) = desc.vert_count + main
                   /\ \A i \in 1..desc.vert_count : ret.positions[i] = 24 * (i - 1)
                   /\ \A i \in 1..main : ret.positions[desc.vert_count + i] >= end
                   /\ Len(ret.bones) >= desc.vert_count
                   /\ \A i \in 1..desc.vert_count :
                        ret.bones[i] = [k \in 1..4 |-> MeshBoneIds[SlotBytes(desc, i)[k] + 1]]
           ELSE IF desc.vert_flags \in {0, 1, 3, 5, 9, 33}
           THEN ret.st = "Ok"
                => /\ ret.main_start = end
                   /\ ret.pos = end + Len(MeshVertexData(desc))
                   /\ Len(ret.positions) = main
                   /\ \A i \in 1..main : ret.positions[i] >= end
           ELSE /\ ret.st = "Err"
                /\ ret.err = [kind |-> "flags", code |-> desc.vert_flags]
                /\ ret.pos = end

C21_Witness ==
    /\ ret # NoRet
    /\ ret.st = "Ok"
    /\ desc.vert_flags = 49
    /\ desc.vert_count = MaxVerts
    /\ desc.face.fa >= 3
    /\ Declared(desc, "position")
    /\ Declared(desc, "bones")
    /\ ret.main_start = MeshFaceDataStart(desc) + 6 * MeshFaceCount(desc)
    /\ Len(ret.positions) = 2 * desc.vert_count

\* The quadruple the bone-id table gives for four slot bytes.
Resolved(slots) == [k \in 1..4 |-> MeshBoneIds[slots[k] + 1]]

\* C22: bones holds one quadruple per bone record read, in read order (the
\* records of the 0x31 pass, then those of the bones channel), and each is the
\* bone-id table entry of each of the record's four slot bytes.
C22_BonesResolved ==
    (ret # NoRet /\ ret.st = "Ok")
    => LET pre == IF desc.vert_flags = 49 THEN desc.vert_count ELSE 0
           main == IF Declared(desc, "bones") THEN desc.vert_count ELSE 0
       IN  /\ Len(ret.bones) = pre + main
           /\ \A i \in 1..pre : ret.bones[i] = Resolved(SlotBytes(desc, i))
           /\ \A i \in 1..main : ret.bones[pre + i] = Resolved(SlotBytes(desc, i + 1))

C22_Witness ==
    /\ ret # NoRet
    /\ ret.st = "Ok"
    /\ desc.vert_flags = 49
    /\ desc.vert_count = MaxVerts
    /\ Declared(desc, "bones")
    /\ Len(ret.bones) = 2 * MaxVerts
    /\ ret.bones[1] = <<BoneIdB, BoneIdB, BoneIdA, BoneIdB>>
    /\ ret.bones[2] = <<BoneIdA, BoneIdB, BoneIdA, BoneIdB>>

(***************************************************************************)
(* d3dmesh/header.rs, d3dmesh/polygons.rs, d3dmesh/mod.rs: Data::parse.    *)
(***************************************************************************)
\* 1297307189 and 1297307190 as the four bytes read_u32 takes them from.
MagicMSV5 == <<\h35, \h56, \h53, \h4d>>
MagicMSV6 == <<\h36, \h56, \h53, \h4d>>

\* The cursor after n relative seeks of stride bytes from pos.  Past the end
\* of the buffer every position behaves alike, so a count beyond the buffer's
\* length is placed just past it.
SeekFar(b, pos, n, stride) == IF n > Len(b) THEN Max(pos, Len(b) + 1) ELSE pos + n * stride

\* `stream_position()? + read_u32()? as u64` with the cursor at pos.
SectionEnd(b, pos) == pos + U32At(b, pos)

HeaderErr(pos, why) == [st |-> "Err", pos |-> pos, err |-> why, name |-> <<>>, version |-> 0]

\* D3DHeader::parse with the cursor at p0.
D3DHeaderParse(b, p0) ==
    IF ~ReadOk(b, p0, 4) THEN HeaderErr(p0, IoErr)
    ELSE IF Bytes(b, p0, 4) \notin {MagicMSV5, MagicMSV6}
    THEN HeaderErr(p0 + 4, [kind |-> "magic"])
    ELSE IF ~ReadOk(b, p0 + 4, 4) \/ ~ReadOk(b, p0 + 16, 4) THEN HeaderErr(p0 + 4, IoErr)
    ELSE
      LET param_count == U32At(b, p0 + 16)
          nm == D3DNameParse(b, SeekFar(b, p0 + 20, param_count, 12))
      IN  IF nm.st # "Ok" \/ ~ReadOk(b, nm.pos, 1) THEN HeaderErr(nm.pos, IoErr)
          ELSE [st |-> "Ok", pos |-> nm.pos + 1, err |-> IoErr, name |-> nm.name,
                version |-> U8At(b, nm.pos)]

\* The position of the words that follow the optional 8 skipped bytes of a
\* polygon record whose header_length_2 is at pos.
AfterHeaderLength2(b, pos) == IF U32At(b, pos) = 16 THEN pos + 12 ELSE pos + 4

\* The polygon loop of one LOD level, i of polygon_total done.
RECURSIVE PolygonEntries(_, _, _, _, _, _)
PolygonEntries(b, pos, i, polygon_total, lod_level, infos) ==
    IF i = polygon_total THEN [st |-> "Ok", pos |-> pos, infos |-> infos]
    ELSE IF ~ReadOk(b, pos, 28) \/ ~ReadOk(b, pos + 48, 28)
            \/ ~ReadOk(b, AfterHeaderLength2(b, pos + 72), 12)
    THEN [st |-> "Err", pos |-> pos, infos |-> infos]
    ELSE
      LET q == AfterHeaderLength2(b, pos + 72)
          info == [vertex_start |-> U32At(b, pos + 56), vertex_min |-> U32At(b, pos + 48),
                   vertex_max |-> U32At(b, pos + 52),
                   polygon_start |-> U32At(b, pos + 60) \div 3,
                   polygon_count |-> U32At(b, pos + 64),
                   face_point_count |-> U32At(b, pos + 68),
                   mat_num |-> U32At(b, q + 4), lod_level |-> lod_level]
      IN  PolygonEntries(b, q + 12, i + 1, polygon_total, lod_level,
                         IF lod_level = 0 THEN Append(infos, info) ELSE infos)

\* The skip loop of section 3B, n records left.
RECURSIVE PolygonSkips(_, _, _)
PolygonSkips(b, pos, n) ==
    IF n = 0 THEN [st |-> "Ok", pos |-> pos]
    ELSE IF ~ReadOk(b, pos + 72, 4) THEN [st |-> "Err", pos |-> pos]
    ELSE PolygonSkips(b, AfterHeaderLength2(b, pos + 72) + 12, n - 1)

\* The LOD loop of PolygonInfo::parse.
RECURSIVE PolygonLods(_, _, _, _, _)
PolygonLods(b, pos, lod_level, section_3_count, infos) ==
    IF lod_level = section_3_count THEN [st |-> "Ok", pos |-> pos, infos |-> infos]
    ELSE IF ~ReadOk(b, pos, 8) THEN [st |-> "Err", pos |-> pos, infos |-> infos]
    ELSE
      LET section_end == SectionEnd(b, pos)
          es == PolygonEntries(b, pos + 8, 0, U32At(b, pos + 4), lod_level, infos)
          section_3b_end == SectionEnd(b, section_end)
          sk == PolygonSkips(b, section_end + 8, U32At(b, section_end + 4))
          p3d == section_3b_end + 92
      IN  IF es.st # "Ok" THEN es
          ELSE IF ~ReadOk(b, section_end, 8) THEN [es EXCEPT !.st = "Err"]
          ELSE IF sk.st # "Ok" \/ ~ReadOk(b, p3d, 8) THEN [es EXCEPT !.st = "Err"]
          ELSE PolygonLods(b, SeekFar(b, p3d + 8, U32At(b, p3d + 4), 8), lod_level + 1,
                           section_3_count, es.infos)

\* PolygonInfo::parse with the cursor at p0.
PolygonInfoParse(b, p0) ==
    IF ~ReadOk(b, p0, 8) THEN [st |-> "Err", pos |-> p0, infos |-> <<>>]
    ELSE LET r == PolygonLods(b, p0 + 8, 0, U32At(b, p0 + 4), <<>>)
         IN  IF r.st # "Ok" THEN r ELSE [r EXCEPT !.pos = SectionEnd(b, p0)]

\* The material loop of section 2.
RECURSIVE DataMaterials(_, _, _, _, _)
DataMaterials(b, pos, id, material_count, materials) ==
    IF id = material_count THEN [st |-> "Ok", pos |-> pos, list |-> materials]
    ELSE LET m == MaterialParse(b, pos)
         IN  IF m.st # "Ok" THEN [st |-> "Err", pos |-> m.pos, list |-> materials]
             ELSE DataMaterials(b, m.pos, id + 1, material_count,
                                Append(materials, [material_id |-> m.material_id,
                                                   textures |-> m.textures]))

\* A loop of fixed-size records of which the first `used` bytes are read and
\* the word at offset `at` is kept: MaterialGroup::parse (76, 12, 4) and the
\* bone id loop of section 7 (56, 8, 0).
RECURSIVE DataIds(_, _, _, _, _, _, _)
DataIds(b, pos, n, size, used, at, ids) ==
    IF n = 0 THEN [st |-> "Ok", pos |-> pos, list |-> ids]
    ELSE IF ~ReadOk(b, pos, used) THEN [st |-> "Err", pos |-> pos, list |-> ids]
    ELSE DataIds(b, pos + size, n - 1, size, used, at, Append(ids, U64At(b, pos + at)))

\* The UV clamp loop of section 11B; layers holds the uv_layer words.
RECURSIVE DataUvClamps(_, _, _, _)
DataUvClamps(b, pos, n, layers) ==
    IF n = 0 THEN [st |-> "Ok", pos |-> pos, list |-> layers]
    ELSE IF ~ReadOk(b, pos, 20) THEN [st |-> "Err", pos |-> pos, list |-> layers]
    ELSE IF U32At(b, pos) >= 6 THEN [st |-> "Panic", pos |-> pos + 20, list |-> layers]
    ELSE DataUvClamps(b, pos + 20, n - 1, Append(layers, U32At(b, pos)))

\* A variant of the search that keeps the first match.
FirstMaterialIndex(materials, material_id) ==
    LET hits == { i \in 1..Len(materials) : materials[i].material_id = material_id }
    IN  IF hits = {} THEN -1 ELSE (CHOOSE i \in hits : \A j \in hits : i <= j) - 1

\* The closure of fix_material_index: the loop runs over all materials and
\* keeps the index of the latest match; -1 stands for None.
MaterialIndex(materials, material_id) ==
    LET hits == { i \in 1..Len(materials) : materials[i].material_id = material_id }
    IN  IF hits = {} THEN -1 ELSE (CHOOSE i \in hits : \A j \in hits : i >= j) - 1

\* A variant of the missing-match case that leaves the index as it was.
MissingMaterialKeepsIndex(polygons, i) == [st |-> "Ok", polygons |-> polygons]

\* `.ok_or(anyhow!(..))?` on a material group no material matches.
MissingMaterial(polygons, i) == [st |-> "Err", polygons |-> polygons]

\* fix_material_index from polygon i on.
RECURSIVE fix_material_index(_, _, _, _)
fix_material_index(polygons, material_groups, materials, i) ==
    IF i > Len(polygons) THEN [st |-> "Ok", polygons |-> polygons]
    ELSE IF polygons[i].mat_num >= Len(material_groups)
    THEN [st |-> "Panic", polygons |-> polygons]
    ELSE
      LET new_index == MaterialIndex(materials, material_groups[polygons[i].mat_num + 1])
      IN  IF new_index < 0
          THEN (LET r == MissingMaterial(polygons, i)
                IN  IF r.st # "Ok" THEN r
                    ELSE fix_material_index(polygons, material_groups, materials, i + 1))
          ELSE fix_material_index([polygons EXCEPT ![i].mat_num = new_index],
                                  material_groups, materials, i + 1)

\* F applied to the value of v, which is taken once.
With(v, F(_)) == CHOOSE r \in { F(x) : x \in {v} } : TRUE

\* The `?` operator: the steps F after the state s unless s is a failure.
Then(s, F(_)) == With(s, LAMBDA x : IF x.st = "Ok" THEN F(x) ELSE x)

DataFail(s, st, pos, why) == [s EXCEPT !.st = st, !.pos = pos, !.err = why]

\* The state of Data::parse before its first read.
DataStart ==
    [st |-> "Ok", pos |-> 0, err |-> IoErr, materials |-> <<>>, polygons |-> <<>>,
     groups |-> <<>>, bone_ids |-> <<>>, face_data_start |-> 0, vert_count |-> 0,
     vert_flags |-> 0, vert_start |-> 0, mesh |-> MeshErrAt(0, IoErr)]

\* The header, the version test and the skip of section 1.
DataHeader(b, s) ==
    With(D3DHeaderParse(b, s.pos), LAMBDA h :
         IF h.st # "Ok" THEN DataFail(s, "Err", h.pos, h.err)
         ELSE IF h.version # 55 THEN DataFail(s, "Err", h.pos, [kind |-> "version"])
         ELSE [s EXCEPT !.pos = h.pos + 20])

\* Section 2, the 5 skipped bytes and face_data_start.
DataSection2(b, s) ==
    IF ~ReadOk(b, s.pos, 4) THEN DataFail(s, "Err", s.pos, IoErr)
    ELSE With(DataMaterials(b, s.pos + 4, 0, U32At(b, s.pos), <<>>), LAMBDA ms :
              IF ms.st # "Ok" \/ ~ReadOk(b, ms.pos + 5, 4)
              THEN DataFail(s, "Err", ms.pos, IoErr)
              ELSE [s EXCEPT !.materials = ms.list, !.pos = ms.pos + 9,
                             !.face_data_start = SectionEnd(b, ms.pos + 5)])

\* Section 3.
DataSection3(b, s) ==
    With(PolygonInfoParse(b, s.pos), LAMBDA pg :
         IF pg.st # "Ok" THEN DataFail(s, "Err", pg.pos, IoErr)
         ELSE [s EXCEPT !.polygons = pg.infos, !.pos = pg.pos])

\* Sections 4, 6, 8 and 9: the length is read and the section skipped.
DataSkip(b, s) ==
    IF ~ReadOk(b, s.pos, 4) THEN DataFail(s, "Err", s.pos, IoErr)
    ELSE [s EXCEPT !.pos = SectionEnd(b, s.pos)]

\* Section 5 (field = "groups") and section 7 (field = "bone_ids").
DataIdSection(b, s, field) ==
    IF ~ReadOk(b, s.pos, 8) THEN DataFail(s, "Err", s.pos, IoErr)
    ELSE With(IF field = "groups"
              THEN DataIds(b, s.pos + 8, U32At(b, s.pos + 4), 76, 12, 4, <<>>)
              ELSE DataIds(b, s.pos + 8, U32At(b, s.pos + 4), 56, 8, 0, <<>>), LAMBDA r :
              IF r.st # "Ok" THEN DataFail(s, "Err", r.pos, IoErr)
              ELSE [s EXCEPT ![field] = r.list, !.pos = SectionEnd(b, s.pos)])

\* Section 10 (the clamps, 104 bytes of which 36 are read) and section 11.
DataSection10(b, s) ==
    IF ~ReadOk(b, s.pos + 8, 24) \/ ~ReadOk(b, s.pos + 68, 12) \/ ~ReadOk(b, s.pos + 104, 12)
    THEN DataFail(s, "Err", s.pos, IoErr)
    ELSE [s EXCEPT !.vert_count = U32At(b, s.pos + 104),
                   !.vert_flags = U32At(b, s.pos + 108),
                   !.pos = SectionEnd(b, s.pos + 112)]

\* Sections 11B and 11C.
DataSection11(b, s) ==
    IF ~ReadOk(b, s.pos, 4) THEN DataFail(s, "Err", s.pos, IoErr)
    ELSE With(DataUvClamps(b, s.pos + 4, U32At(b, s.pos), <<>>), LAMBDA uv :
              IF uv.st = "Err" THEN DataFail(s, "Err", uv.pos, IoErr)
              ELSE IF uv.st = "Panic" THEN DataFail(s, "Panic", uv.pos, [kind |-> "index"])
              ELSE IF s.vert_flags # 49 THEN [s EXCEPT !.pos = uv.pos]
              ELSE IF ~ReadOk(b, uv.pos + 36, 8) THEN DataFail(s, "Err", uv.pos, IoErr)
              ELSE [s EXCEPT !.vert_start = uv.pos + 44,
                             !.pos = SectionEnd(b, uv.pos + 36)])

\* Section 12.
DataSection12(b, s) ==
    With(MeshParse(b, s.pos, s.face_data_start, s.vert_start, s.vert_flags, s.vert_count,
                   s.bone_ids), LAMBDA mesh :
         IF mesh.st # "Ok" THEN DataFail(s, mesh.st, mesh.pos, mesh.err)
         ELSE [s EXCEPT !.mesh = mesh, !.pos = mesh.pos])

\* The call of fix_material_index.
DataFixMaterials(s) ==
    With(fix_material_index(s.polygons, s.groups, s.materials, 1), LAMBDA fx :
         IF fx.st = "Err" THEN DataFail(s, "Err", s.pos, [kind |-> "material"])
         ELSE IF fx.st = "Panic" THEN DataFail(s, "Panic", s.pos, [kind |-> "index"])
         ELSE [s EXCEPT !.polygons = fx.polygons])

\* Data::parse on the whole buffer, the checksum table being ChecksumEntries.
DataParse(b) ==
    LET s3 == Then(Then(Then(DataStart, LAMBDA s : DataHeader(b, s)),
                        LAMBDA s : DataSection2(b, s)),
                   LAMBDA s : DataSection3(b, s))
        s5 == Then(Then(s3, LAMBDA s : DataSkip(b, s)),
                   LAMBDA s : DataIdSection(b, s, "groups"))
        s7 == Then(Then(s5, LAMBDA s : DataSkip(b, s)),
                   LAMBDA s : DataIdSection(b, s, "bone_ids"))
        s9 == Then(Then(s7, LAMBDA s : DataSkip(b, s)), LAMBDA s : DataSkip(b, s))
        s11 == Then(Then(s9, LAMBDA s : DataSection10(b, s)),
                    LAMBDA s : DataSection11(b, s))
    IN  Then(Then(s11, LAMBDA s : DataSection12(b, s)), LAMBDA s : DataFixMaterials(s))

(***************************************************************************)
(* The enumerated .d3dmesh files.  A description holds the ids of the      *)
(* materials, of the material groups, the material-group index of each     *)
(* polygon and a framing: magic, version, LOD levels, header_length_2, UV  *)
(* clamp layers, the mesh section and the bytes cut off the end.           *)
(***************************************************************************)
MaxMaterials == 2
MaxPolygons == 2

MatIdC == <<\h0c, \h0c, \h0c, \h0c, \h0c, \h0c, \h0c, \h0c>>

DataGroupLists ==
    { <<>>, <<MatIdA>>, <<MatIdB, MatIdA>>, <<MatIdC, MatIdA>>, <<MatIdA, MatIdB, MatIdA>> }

MeshOf(layout, face, vert_flags, vert_count, slot) ==
    [layout |-> layout, face |-> face, vert_flags |-> vert_flags, vert_count |-> vert_count,
     slot |-> slot, cut |-> 0]

MeshNone == MeshOf(<<>>, FaceCfg(0, 0, 0, 0), 0, 0, 1)
MeshPlain ==
    MeshOf(<<LayoutEntry("position", 1, 1, 4, 12), LayoutEntry("uv1", 7, 1, 3, 8)>>,
           FaceCfg(1, 3, 0, 1), 1, 1, 1)
MeshSkinned(slot) == MeshOf(<<LayoutEntry("normals", 2, 1, 38, 4)>>, FaceCfg(2, 4, 3, 0), 49, 1, slot)

Framing(magic, ver, lods, hl2, uvl, mesh, cut) ==
    [magic |-> magic, ver |-> ver, lods |-> lods, hl2 |-> hl2, uvl |-> uvl, mesh |-> mesh,
     cut |-> cut]

\* The first three framings are well-formed files.
DataFramings ==
    << Framing(MagicMSV5, 55, 1, 0, <<>>, MeshNone, 0),
       Framing(MagicMSV6, 55, 2, 16, <<0>>, MeshPlain, 0),
       Framing(MagicMSV5, 55, 1, 16, <<5, 1>>, MeshSkinned(1), 0),
       Framing(<<\h4e, \h49, \h42, \h4d>>, 55, 1, 0, <<>>, MeshNone, 0),
       Framing(MagicMSV5, 54, 1, 0, <<>>, MeshNone, 0),
       Framing(MagicMSV5, 55, 1, 0, <<6>>, MeshPlain, 0),
       Framing(MagicMSV6, 55, 1, 0, <<>>, MeshPlain, 9),
       Framing(MagicMSV5, 55, 1, 0, <<>>, MeshSkinned(2), 0),
       Framing(MagicMSV5, 55, 0, 0, <<>>, [MeshPlain EXCEPT !.vert_flags = 2], 0),
       Framing(MagicMSV5, 55, 1, 0, <<>>, [MeshPlain EXCEPT !.face = FaceCfg(3, 3, 3, 0)], 0) >>

DataDescs ==
    [mats : SeqsUpTo({MatIdA, MatIdB}, MaxMaterials), groups : DataGroupLists,
     polys : SeqsUpTo(0..2, MaxPolygons), f : 1..Len(DataFramings)]

FramingOf(d) == DataFramings[d.f]

\* An empty length-prefixed section: the length counts its own field.
Sized(content) == LE32(4 + Len(content)) \o content

DataHeaderBytes(d) ==
    FramingOf(d).magic \o LE32(0) \o Zeros(8) \o LE32(1) \o Zeros(12)
    \o LE32(5) \o <<111, 98, 106, 95, 97>> \o <<FramingOf(d).ver>> \o Zeros(20)

DataMaterialBytes(id) ==
    LE64(id) \o LE32(0) \o LE32(0) \o LE32(24) \o Zeros(12) \o LE32(0) \o LE32(0)

DataPolygonBytes(d, lod, i) ==
    Fill(28, 0) \o Zeros(20) \o LE32(0) \o LE32(3) \o LE32(0) \o LE32(3 * (i - 1))
    \o LE32(1) \o LE32(3) \o LE32(FramingOf(d).hl2)
    \o (IF FramingOf(d).hl2 = 16 THEN Zeros(8) ELSE <<>>)
    \o LE32(0) \o LE32(IF lod = 0 THEN d.polys[i] ELSE 7) \o LE32(0)

DataLodBytes(d, lod) ==
    Sized(LE32(Len(d.polys))
          \o Concat([i \in 1..Len(d.polys) |-> DataPolygonBytes(d, lod, i)]))
    \o Sized(LE32(1) \o Zeros(72) \o LE32(FramingOf(d).hl2)
             \o (IF FramingOf(d).hl2 = 16 THEN Zeros(8) ELSE <<>>) \o Zeros(12))
    \o Zeros(92) \o LE32(0) \o LE32(1) \o Zeros(8)

DataPolygonSection(d) ==
    Sized(LE32(FramingOf(d).lods)
          \o Concat([l \in 1..FramingOf(d).lods |-> DataLodBytes(d, l - 1)]))

\* Sections 4 to 11B, and the lead of 11C when the flags are 0x31.
DataMiddle(d) ==
    DataPolygonSection(d)
    \o Sized(<<>>)
    \o Sized(LE32(Len(d.groups))
             \o Concat([i \in 1..Len(d.groups) |-> LE32(0) \o LE64(d.groups[i]) \o Zeros(64)]))
    \o Sized(<<>>)
    \o Sized(LE32(Len(MeshBoneIds))
             \o Concat([i \in 1..Len(MeshBoneIds) |-> LE64(MeshBoneIds[i]) \o Zeros(48)]))
    \o Sized(<<>>) \o Sized(<<>>)
    \o Zeros(104)
    \o LE32(FramingOf(d).mesh.vert_count) \o LE32(FramingOf(d).mesh.vert_flags) \o Sized(<<>>)
    \o LE32(Len(FramingOf(d).uvl))
    \o Concat([i \in 1..Len(FramingOf(d).uvl) |-> LE32(FramingOf(d).uvl[i]) \o Zeros(16)])
    \o (IF FramingOf(d).mesh.vert_flags = 49
        THEN Zeros(36) \o LE32(8 + Len(MeshBufA(FramingOf(d).mesh)))
             \o LE32(Len(MeshBufA(FramingOf(d).mesh)))
        ELSE <<>>)

DataWhole(d) ==
    LET mid == DataMiddle(d)
        m == FramingOf(d).mesh
    IN  DataHeaderBytes(d)
        \o LE32(Len(d.mats)) \o Concat([i \in 1..Len(d.mats) |-> DataMaterialBytes(d.mats[i])])
        \o Zeros(5) \o LE32(4 + Len(mid) + Len(MeshBufA(m)) + Len(MeshHeader(m))) \o mid
        \o MeshWhole(m)

DataFile(d) ==
    LET w == DataWhole(d) IN SubSeq(w, 1, Len(w) - FramingOf(d).cut)

InitData ==
    /\ desc \in DataDescs
    /\ input = DataFile(desc)
    /\ ret = NoRet

\* Data::parse is called on the file.
ParseData ==
    /\ ret = NoRet
    /\ ret' = DataParse(input)
    /\ UNCHANGED <<desc, input>>

NextData == ParseData

SpecData == InitData /\ [][NextData]_vars

\* The material group polygon i of the description refers to, <<>> when its
\* index is beyond the groups.
PolyGroupId(d, i) ==
    IF d.polys[i] < Len(d.groups) THEN d.groups[d.polys[i] + 1] ELSE <<>>

Unmatched(d, i) ==
    /\ d.polys[i] < Len(d.groups)
    /\ \A j \in 1..Len(d.mats) : d.mats[j] # PolyGroupId(d, i)

\* C2: after a successful Data::parse every polygon's mat_num is the index of
\* a material, one that carries the id of the material group the polygon
\* referred to; a polygon whose material group matches no material makes the
\* parse fail, with the material error when nothing else is wrong with the file.
C2_MatNumValidOrError ==
    ret # NoRet
    => /\ ret.st = "Ok"
          => \A i \in 1..Len(ret.polygons) :
               /\ ret.polygons[i].mat_num \in 0..(Len(ret.materials) - 1)
               /\ ret.materials[ret.polygons[i].mat_num + 1].material_id = PolyGroupId(desc, i)
       /\ (\E i \in 1..Len(desc.polys) : Unmatched(desc, i)) => ret.st # "Ok"
       /\ ( /\ desc.f <= 3
            /\ \A i \in 1..Len(desc.polys) : desc.polys[i] < Len(desc.groups)
            /\ \E i \in 1..Len(desc.polys) : Unmatched(desc, i) )
          => (ret.st = "Err" /\ ret.err.kind = "material")

C2_Witness ==
    /\ ret # NoRet
    /\ ret.st = "Ok"
    /\ Len(ret.materials) = 2
    /\ \E i \in 1..Len(ret.polygons) :
         /\ ret.polygons[i].mat_num # desc.polys[i]
         /\ ret.polygons[i].mat_num = 1

\* C5: fix_material_index sets each polygon's mat_num to the position of the
\* first material whose id is that of the material group the polygon indexed.
C5_FirstMatchingMaterial ==
    (ret # NoRet /\ ret.st = "Ok")
    => \A i \in 1..Len(ret.polygons) :
         ret.polygons[i].mat_num = FirstMaterialIndex(ret.materials, PolyGroupId(desc, i))

\* export/mod.rs, separate_mesh: the faces of every polygon group, or the panic
\* of the slice `faces[range_start..range_end]` that leaves the face array.
RECURSIVE separate_mesh(_, _, _, _)
separate_mesh(polygons, faces, i, separated_meshes) ==
    IF i > Len(polygons) THEN [st |-> "Ok", meshes |-> separated_meshes]
    ELSE LET range_start == polygons[i].polygon_start
             range_end == range_start + polygons[i].polygon_count
         IN  IF range_end > Len(faces) THEN [st |-> "Panic", meshes |-> <<>>]
             ELSE separate_mesh(polygons, faces, i + 1,
                                Append(separated_meshes,
                                       [faces |-> SubSeq(faces, range_start + 1, range_end),
                                        material_index |-> polygons[i].mat_num]))

\* C29 as stated: after a successful Data::parse every kept polygon group has
\* polygon_start + polygon_count <= mesh.faces.len(), so separate_mesh slices
\* the faces of every group without leaving the array; the groups kept are
\* those of LOD level 0.
C29_PolygonRangesInsideFaces ==
    (ret # NoRet /\ ret.st = "Ok")
    => /\ \A i \in 1..Len(ret.polygons) :
            /\ ret.polygons[i].polygon_start + ret.polygons[i].polygon_count
                 <= Len(ret.mesh.faces)
            /\ ret.polygons[i].lod_level = 0
       /\ separate_mesh(ret.polygons, ret.mesh.faces, 1, <<>>).st = "Ok"

\* The groups kept are those of LOD level 0, in file order, with the range the
\* file gives them.
OnlyLodZeroKept ==
    (ret # NoRet /\ ret.st = "Ok")
    => /\ Len(ret.polygons) = (IF FramingOf(desc).lods = 0 THEN 0 ELSE Len(desc.polys))
       /\ \A i \in 1..Len(ret.polygons) :
            /\ ret.polygons[i].lod_level = 0
            /\ ret.polygons[i].polygon_start = i - 1
            /\ ret.polygons[i].polygon_count = 1

\* A file without faces and with one polygon group is decoded.
PolygonBeyondFacesReached ==
    /\ ret # NoRet
    /\ ret.st = "Ok"
    /\ ret.mesh.faces = <<>>
    /\ Len(ret.polygons) = 1
    /\ separate_mesh(ret.polygons, ret.mesh.faces, 1, <<>>).st = "Panic"

\* C30 as stated: Data::parse returns Ok or Err for every byte sequence and
\* never panics; a face-buffer count above 2, a bone slot beyond the bone-id
\* table, a UV-clamp layer of 6 or more and a material-group index beyond the
\* material groups are errors.
C30_DataParseTotal ==
    ret # NoRet => ret.st \in {"Ok", "Err"}

\* The four inputs, with nothing else wrong with the file.
BadFaceBufferCount(d) == FramingOf(d).mesh.face.fbc > 2
BadBoneSlot(d) == FramingOf(d).mesh.vert_flags = 49 /\ FramingOf(d).mesh.slot >= Len(MeshBoneIds)
BadUvLayer(d) == \E i \in 1..Len(FramingOf(d).uvl) : FramingOf(d).uvl[i] >= 6
BadGroupIndex(d) ==
    /\ FramingOf(d).lods > 0
    /\ \E i \in 1..Len(d.polys) : d.polys[i] >= Len(d.groups)

\* Each of the four inputs is reached and ends in a panic.
DataParsePanicsReached(kind) ==
    /\ ret # NoRet
    /\ ret.st = "Panic"
    /\ CASE kind = 1 -> BadFaceBufferCount(desc) /\ ret.err.kind = "unreachable"
         [] kind = 2 -> BadBoneSlot(desc) /\ ~BadGroupIndex(desc)
         [] kind = 3 -> BadUvLayer(desc)
         [] kind = 4 -> BadGroupIndex(desc) /\ desc.f = 2

\* Without any of the four inputs Data::parse returns Ok or Err.
DataParseTotalOtherwise ==
    (ret # NoRet /\ ~BadFaceBufferCount(desc) /\ ~BadBoneSlot(desc) /\ ~BadUvLayer(desc)
       /\ ~BadGroupIndex(desc))
    => ret.st \in {"Ok", "Err"}

\* With one of the four inputs, in a file of the right magic and version,
\* Data::parse does not return Ok.
DataParseBadInputNotOk ==
    (ret # NoRet /\ (BadFaceBufferCount(desc) \/ BadBoneSlot(desc) \/ BadUvLayer(desc)
                     \/ BadGroupIndex(desc)))
    => ret.st # "Ok"

(***************************************************************************)
(* d3dtx/bcn_image.rs: the BCn block decoders.  A source block and the     *)
(* decoded block are byte sequences; source[k] of the code is source[k+1]  *)
(* here.  The code folds an index table into one integer and shifts it;    *)
(* the bits of that integer are taken from the bytes that hold them.       *)
(***************************************************************************)
Pow2(n) == IF n = 0 THEN 1 ELSE IF n = 1 THEN 2 ELSE IF n = 2 THEN 4 ELSE IF n = 3 THEN 8
           ELSE IF n = 4 THEN 16 ELSE IF n = 5 THEN 32 ELSE IF n = 6 THEN 64 ELSE 128

\* Bit n of the little-endian integer whose lowest byte is source[first].
BitAt(source, first, n) == (source[first + n \div 8] \div Pow2(n % 8)) % 2

\* `(table >> (i * width)) & (2^width - 1)` for width 2 and 3.
ColorIndex(source, first, i) == BitAt(source, first, 2 * i) + 2 * BitAt(source, first, 2 * i + 1)

AlphaIndex(source, first, i) ==
    BitAt(source, first, 3 * i) + 2 * BitAt(source, first, 3 * i + 1)
    + 4 * BitAt(source, first, 3 * i + 2)

\* A variant that multiplies in 8 bits: the products wrap at 256.
enc565_decode_u8(value) ==
    LET red == (value \div 2048) % 32
        green == (value \div 32) % 64
        blue == value % 32
    IN  <<(((red * 255) % 256) \div 31) % 256, (((green * 255) % 256) \div 63) % 256,
          (((blue * 255) % 256) \div 31) % 256>>

\* The channels are u16 values: a product wraps at 65536, `as u8` at 256.
enc565_decode(value) ==
    LET red == (value \div 2048) % 32
        green == (value \div 32) % 64
        blue == value % 32
    IN  <<(((red * 255) % 65536) \div 31) % 256, (((green * 255) % 65536) \div 63) % 256,
          (((blue * 255) % 65536) \div 31) % 256>>

\* A variant that adds in 8 bits: the weighted sums wrap at 256.
alpha_table_dxt5_u8(alpha0, alpha1) ==
    [k \in 1..8 |->
       LET i == k - 1
       IN  IF i = 0 THEN alpha0
           ELSE IF i = 1 THEN alpha1
           ELSE IF alpha0 > alpha1
           THEN ((((8 - i) * alpha0 + (i - 1) * alpha1) % 256) \div 7) % 256
           ELSE IF i < 6
           THEN ((((6 - i) * alpha0 + (i - 1) * alpha1) % 256) \div 5) % 256
           ELSE IF i = 6 THEN 0 ELSE 255]

\* The table as a sequence: entry i of the code is element i + 1.
alpha_table_dxt5(alpha0, alpha1) ==
    [k \in 1..8 |->
       LET i == k - 1
       IN  IF i = 0 THEN alpha0
           ELSE IF i = 1 THEN alpha1
           ELSE IF alpha0 > alpha1
           THEN ((((8 - i) * alpha0 + (i - 1) * alpha1) % 65536) \div 7) % 256
           ELSE IF i < 6
           THEN ((((6 - i) * alpha0 + (i - 1) * alpha1) % 65536) \div 5) % 256
           ELSE IF i = 6 THEN 0 ELSE 255]

\* A variant of the mode test that always takes the four-colour blend.
AlwaysFourColors(color0, color1, is_bc1) == TRUE

\* A variant of the mode test that looks at the endpoints alone.
FourColorsByOrderAlone(color0, color1, is_bc1) == color0 > color1

\* `color0 > color1 || !is_bc1`: the four-colour blend is used.
FourColors(color0, color1, is_bc1) == color0 > color1 \/ ~is_bc1

\* The colour table of the 8-byte colour block that starts at source[first].
DxtColorTable(source, first, is_bc1) ==
    LET color0 == source[first] + 256 * source[first + 1]
        color1 == source[first + 2] + 256 * source[first + 3]
        c0 == enc565_decode(color0)
        c1 == enc565_decode(color1)
    IN  IF FourColors(color0, color1, is_bc1)
        THEN <<c0, c1, [i \in 1..3 |-> ((c0[i] * 2 + c1[i] + 1) \div 3) % 256],
               [i \in 1..3 |-> ((c0[i] + c1[i] * 2 + 1) \div 3) % 256]>>
        ELSE <<c0, c1, [i \in 1..3 |-> ((c0[i] + c1[i] + 1) \div 2) % 256], <<0, 0, 0>>>>

\* decode_dxt_colors: channel c (0..2) of pixel i (0..15).
decode_dxt_colors(source, first, is_bc1, i, c) ==
    DxtColorTable(source, first, is_bc1)[ColorIndex(source, first + 4, i) + 1][c + 1]

decode_bc1_block(source) ==
    [k \in 1..48 |-> decode_dxt_colors(source, 1, TRUE, (k - 1) \div 3, (k - 1) % 3)]

decode_dxt3_block(source) ==
    [k \in 1..64 |->
       LET i == (k - 1) \div 4
       IN  IF (k - 1) % 4 = 3
           THEN (((source[1 + i \div 2] \div (IF i % 2 = 0 THEN 1 ELSE 16)) % 16) * 17) % 256
           ELSE decode_dxt_colors(source, 9, FALSE, i, (k - 1) % 4)]

decode_dxt5_block(source) ==
    [k \in 1..64 |->
       LET i == (k - 1) \div 4
       IN  IF (k - 1) % 4 = 3
           THEN alpha_table_dxt5(source[1], source[2])[AlphaIndex(source, 3, i) + 1]
           ELSE decode_dxt_colors(source, 9, FALSE, i, (k - 1) % 4)]

decode_bc4_block(source) ==
    [k \in 1..16 |-> alpha_table_dxt5(source[1], source[2])[AlphaIndex(source, 3, k - 1) + 1]]

decode_bc5_block(source) ==
    [k \in 1..32 |->
       IF (k - 1) % 2 = 0
       THEN alpha_table_dxt5(source[1], source[2])[AlphaIndex(source, 3, (k - 1) \div 2) + 1]
       ELSE alpha_table_dxt5(source[9], source[10])[AlphaIndex(source, 11, (k - 1) \div 2) + 1]]

encoded_bytes_per_block(variant) == IF variant \in {"BC1", "BC4"} THEN 8 ELSE 16

\* read_scanline on an image one block wide: the row is the block.
BcnReadScanline(variant, src) ==
    IF Len(src) < encoded_bytes_per_block(variant) THEN [st |-> "Err", dest |-> <<>>]
    ELSE [st |-> "Ok",
          dest |-> CASE variant = "BC1" -> decode_bc1_block(src)
                     [] variant = "BC2" -> decode_dxt3_block(src)
                     [] variant = "BC3" -> decode_dxt5_block(src)
                     [] variant = "BC4" -> decode_bc4_block(src)
                     [] variant = "BC5" -> decode_bc5_block(src)]

(***************************************************************************)
(* The enumerated blocks: packed endpoints and an index per pixel, laid    *)
(* out the way the formats store them.                                     *)
(***************************************************************************)
BcnColors == {0, 65535, 33808, 63488}
BcnAlphas == {0, 200, 255}

\* Index tables: one index for all pixels, or the pixel number modulo n.
IndexTables(n) ==
    { [i \in 0..15 |-> k] : k \in 0..(n - 1) } \cup { [i \in 0..15 |-> i % n] }

ColorBlocks == [c0 : BcnColors, c1 : BcnColors, idx : IndexTables(4)]
AlphaBlocks == [a0 : BcnAlphas, a1 : BcnAlphas, idx : IndexTables(8)]
NibbleBlocks == { [i \in 0..15 |-> 15], [i \in 0..15 |-> i] }

\* Some blocks for the second half of a two-part variant.
ColorBlocksB == { cb \in ColorBlocks : cb.c1 \in {0, 33808} /\ cb.idx[1] # 1 }
AlphaBlocksB == { ab \in AlphaBlocks : ab.a0 = 200 /\ ab.idx[1] \in {0, 1, 6, 7} }

BcnDescs ==
    [variant : {"BC1"}, color : ColorBlocks]
    \cup [variant : {"BC2"}, nibbles : NibbleBlocks, color : ColorBlocks]
    \cup [variant : {"BC3"}, alpha : AlphaBlocks, color : ColorBlocksB]
    \cup [variant : {"BC4"}, alpha : AlphaBlocks]
    \cup [variant : {"BC5"}, alpha : AlphaBlocks, alpha2 : AlphaBlocksB]

\* Byte j (0-based) of a table of 16 indices of width bits each.
PackedByte(idx, width, j) ==
    LET bit(n) == (idx[n \div width] \div Pow2(n % width)) % 2
    IN  bit(8 * j) + 2 * bit(8 * j + 1) + 4 * bit(8 * j + 2) + 8 * bit(8 * j + 3)
        + 16 * bit(8 * j + 4) + 32 * bit(8 * j + 5) + 64 * bit(8 * j + 6)
        + 128 * bit(8 * j + 7)

ColorBlockBytes(cb) == LE16(cb.c0) \o LE16(cb.c1) \o [j \in 1..4 |-> PackedByte(cb.idx, 2, j - 1)]

AlphaBlockBytes(ab) == <<ab.a0, ab.a1>> \o [j \in 1..6 |-> PackedByte(ab.idx, 3, j - 1)]

BcnSource(d) ==
    CASE d.variant = "BC1" -> ColorBlockBytes(d.color)
      [] d.variant = "BC2" ->
           [j \in 1..8 |-> PackedByte(d.nibbles, 4, j - 1)] \o ColorBlockBytes(d.color)
      [] d.variant = "BC3" -> AlphaBlockBytes(d.alpha) \o ColorBlockBytes(d.color)
      [] d.variant = "BC4" -> AlphaBlockBytes(d.alpha)
      [] d.variant = "BC5" -> AlphaBlockBytes(d.alpha) \o AlphaBlockBytes(d.alpha2)

InitBcn ==
    /\ desc \in BcnDescs
    /\ input = BcnSource(desc)
    /\ ret = NoRet

\* A 4x4 image of the variant is decoded.
DecodeBlock ==
    /\ ret = NoRet
    /\ ret' = BcnReadScanline(desc.variant, input)
    /\ UNCHANGED <<desc, input>>

NextBcn == DecodeBlock

SpecBcn == InitBcn /\ [][NextBcn]_vars

\* Channel c (0-based) of pixel i (0-based) of the decoded block.
Pixel(dest, pitch, i, c) == dest[i * pitch + c + 1]

BcnPitch(variant) ==
    CASE variant = "BC1" -> 3 [] variant \in {"BC2", "BC3"} -> 4 [] variant = "BC4" -> 1
      [] variant = "BC5" -> 2

Rgb(dest, pitch, i) == <<Pixel(dest, pitch, i, 0), Pixel(dest, pitch, i, 1), Pixel(dest, pitch, i, 2)>>

EqualAlpha(a, k) == IF k <= 5 THEN a ELSE IF k = 6 THEN 0 ELSE 255

ExpectedColor(c0, c1, two, idx) ==
    LET e0 == enc565_decode(c0)
        e1 == enc565_decode(c1)
    IN  CASE idx = 0 -> e0
          [] idx = 1 -> e1
          [] idx = 2 -> IF two THEN [c \in 1..3 |-> (e0[c] + e1[c] + 1) \div 2]
                        ELSE [c \in 1..3 |-> (2 * e0[c] + e1[c] + 1) \div 3]
          [] idx = 3 -> IF two THEN <<0, 0, 0>>
                        ELSE [c \in 1..3 |-> (e0[c] + 2 * e1[c] + 1) \div 3]

\* C23: a colour block is decoded in the 2-colour mode exactly when it is a BC1
\* block with color0 <= color1, and in the 4-colour mode otherwise; pixel i
\* takes the colour of the index held in bits 2i..2i+1 of the index table.
C23_ColorModes ==
    (ret # NoRet /\ desc.variant \in {"BC1", "BC2", "BC3"})
    => /\ ret.st = "Ok"
       /\ \A i \in 0..15 :
            Rgb(ret.dest, BcnPitch(desc.variant), i)
              = ExpectedColor(desc.color.c0, desc.color.c1,
                              desc.variant = "BC1" /\ desc.color.c0 <= desc.color.c1,
                              desc.color.idx[i])

C23_Witness ==
    /\ ret # NoRet
    /\ ret.st = "Ok"
    /\ desc.variant = "BC2"
    /\ desc.color.c0 = 0
    /\ desc.color.c1 = 33808
    /\ desc.color.idx[3] = 3
    /\ desc.color.idx[2] = 2
    /\ Rgb(ret.dest, 4, 3) = <<87, 86, 87>>
    /\ Rgb(ret.dest, 4, 2) = <<44, 43, 44>>

(***************************************************************************)
(* main.rs: the batch dispatch.  Here desc is the input folder, and ret is *)
(* the state of the run: the phase of main, the position of every          *)
(* handle_d3dmesh_file task and of the handle_skl_file task, the output    *)
(* artefacts created and the error lines logged.  What a decode returns    *)
(* for a file is part of the folder's description: Data::parse returns Ok  *)
(* or an error or panics, a texture or skeleton decode returns Ok or an    *)
(* error.  The tasks of one par_bridge().for_each run interleaved.         *)
(***************************************************************************)
MaxMeshFiles == 2

\* decode: what Data::parse does on the file; texs: what the decode of each
\* texture its materials name does; rigged: the file name starts with the
\* skeleton's name.
MeshEntry(decode, texs, rigged) == [decode |-> decode, texs |-> texs, rigged |-> rigged]

MeshFileKinds ==
    { MeshEntry("Ok", <<>>, TRUE), MeshEntry("Ok", <<"Ok">>, TRUE),
      MeshEntry("Ok", <<"Ok", "Err">>, TRUE), MeshEntry("Err", <<>>, TRUE),
      MeshEntry("Panic", <<>>, TRUE), MeshEntry("Ok", <<"Ok">>, FALSE),
      MeshEntry("Err", <<>>, FALSE) }

\* skl: "none" when the folder holds no .skl file, else what Skeleton::parse
\* returns; skip_mesh: config.disable_d3dmesh_conversion.
Folders ==
    [meshes : SeqsUpTo(MeshFileKinds, MaxMeshFiles), skl : {"none", "Ok", "Err"},
     skip_mesh : BOOLEAN]

Init ==
    /\ desc \in Folders
    /\ input = <<>>
    /\ ret = [phase |-> IF desc.skip_mesh THEN "skl" ELSE "mesh",
              task |-> [i \in 1..Len(desc.meshes) |-> [pc |-> "todo", tex |-> 1]],
              skl |-> [pc |-> "todo", i |-> 1, tex |-> 1],
              outputs |-> {}, errors |-> {}, panic |-> FALSE,
              decoded |-> {}, skl_decoded |-> {}]

\* A variant of the step after Data::parse that goes on whatever it returned.
AfterParseIgnoresFailure(outcome) == "textures"

\* Where a handler stands after Data::parse returned: `?` leaves on an error.
AfterParse(outcome) ==
    CASE outcome = "Ok" -> "textures" [] outcome = "Err" -> "failed" [] OTHER -> "panicked"

Texture(mesh, n, by) == [kind |-> "texture", mesh |-> mesh, n |-> n, by |-> by]
Gltf(by, mesh) == [kind |-> "gltf", mesh |-> mesh, n |-> 0, by |-> by]

\* handle_d3dmesh_file, first step: the file is read and Data::parse called.
D3dmeshParse(i) ==
    /\ ret.phase = "mesh"
    /\ ret.task[i].pc = "todo"
    /\ LET pc == AfterParse(desc.meshes[i].decode)
       IN  ret' = [ret EXCEPT !.task[i].pc = pc,
                              !.decoded = @ \cup {i},
                              !.errors = IF pc = "failed" THEN @ \cup {<<"mesh", i>>} ELSE @,
                              !.panic = @ \/ pc = "panicked"]
    /\ UNCHANGED <<desc, input>>

\* handle_d3dmesh_file in copy_textures: the next texture is decoded and saved.
D3dmeshCopyTexture(i) ==
    /\ ret.phase = "mesh"
    /\ ret.task[i].pc = "textures"
    /\ ret.task[i].tex <= Len(desc.meshes[i].texs)
    /\ ret' = IF desc.meshes[i].texs[ret.task[i].tex] = "Ok"
              THEN [ret EXCEPT !.outputs = @ \cup {Texture(i, ret.task[i].tex, "mesh")},
                               !.task[i].tex = @ + 1]
              ELSE [ret EXCEPT !.task[i].pc = "failed", !.errors = @ \cup {<<"mesh", i>>}]
    /\ UNCHANGED <<desc, input>>

\* handle_d3dmesh_file, last step: create_gltf.
D3dmeshCreateGltf(i) ==
    /\ ret.phase = "mesh"
    /\ ret.task[i].pc = "textures"
    /\ ret.task[i].tex > Len(desc.meshes[i].texs)
    /\ ret' = [ret EXCEPT !.outputs = @ \cup {Gltf("mesh", i)}, !.task[i].pc = "done"]
    /\ UNCHANGED <<desc, input>>

\* A panic of a task leaves main: at once when the build aborts on panic, and
\* when the other running tasks have stepped on when it unwinds.
PanicExit ==
    /\ ret.panic
    /\ ret.phase \in {"mesh", "skl"}
    /\ ret' = [ret EXCEPT !.phase = "aborted"]
    /\ UNCHANGED <<desc, input>>

\* The first for_each has returned: main goes on to the .skl files.
SklPhase ==
    /\ ret.phase = "mesh"
    /\ ~ret.panic
    /\ \A i \in 1..Len(desc.meshes) : ret.task[i].pc \in {"done", "failed"}
    /\ ret' = [ret EXCEPT !.phase = "skl"]
    /\ UNCHANGED <<desc, input>>

\* handle_skl_file, first step: Skeleton::parse.
SklParse ==
    /\ ret.phase = "skl"
    /\ desc.skl # "none"
    /\ ret.skl.pc = "todo"
    /\ ret' = IF desc.skl = "Ok"
              THEN [ret EXCEPT !.skl.pc = "meshes"]
              ELSE [ret EXCEPT !.skl.pc = "failed", !.errors = @ \cup {<<"skl", 0>>}]
    /\ UNCHANGED <<desc, input>>

\* handle_skl_file in its loop over the folder: the next entry is skipped, or
\* it is a mesh of the skeleton and Data::parse is called on it.
SklMeshParse ==
    /\ ret.phase = "skl"
    /\ ret.skl.pc = "meshes"
    /\ ret.skl.i <= Len(desc.meshes)
    /\ LET i == ret.skl.i
           pc == AfterParse(desc.meshes[i].decode)
       IN  ret' = IF ~desc.meshes[i].rigged
                  THEN [ret EXCEPT !.skl.i = i + 1]
                  ELSE [ret EXCEPT !.skl.pc = pc, !.skl.tex = 1,
                                   !.skl_decoded = @ \cup {i},
                                   !.errors = IF pc = "failed" THEN @ \cup {<<"skl", 0>>}
                                              ELSE @,
                                   !.panic = @ \/ pc = "panicked"]
    /\ UNCHANGED <<desc, input>>

\* handle_skl_file in copy_textures for the mesh just parsed; after the last
\* texture the mesh is pushed and the loop goes on.
SklCopyTexture ==
    /\ ret.phase = "skl"
    /\ ret.skl.pc = "textures"
    /\ LET i == ret.skl.i
           n == ret.skl.tex
       IN  ret' = IF n > Len(desc.meshes[i].texs)
                  THEN [ret EXCEPT !.skl.pc = "meshes", !.skl.i = i + 1]
                  ELSE IF desc.meshes[i].texs[n] = "Ok"
                  THEN [ret EXCEPT !.outputs = @ \cup {Texture(i, n, "skl")},
                                   !.skl.tex = n + 1]
                  ELSE [ret EXCEPT !.skl.pc = "failed", !.errors = @ \cup {<<"skl", 0>>}]
    /\ UNCHANGED <<desc, input>>

\* handle_skl_file, last step: create_rigged_gltf.
SklCreateRiggedGltf ==
    /\ ret.phase = "skl"
    /\ ret.skl.pc = "meshes"
    /\ ret.skl.i > Len(desc.meshes)
    /\ ret' = [ret EXCEPT !.outputs = @ \cup {Gltf("skl", 0)}, !.skl.pc = "done"]
    /\ UNCHANGED <<desc, input>>

\* The second for_each has returned and main returns Ok.
MainReturn ==
    /\ ret.phase = "skl"
    /\ ~ret.panic
    /\ desc.skl = "none" \/ ret.skl.pc \in {"done", "failed"}
    /\ ret' = [ret EXCEPT !.phase = "end"]
    /\ UNCHANGED <<desc, input>>

Next ==
    \/ \E i \in 1..Len(desc.meshes) : D3dmeshParse(i)
    \/ \E i \in 1..Len(desc.meshes) : D3dmeshCopyTexture(i)
    \/ \E i \in 1..Len(desc.meshes) : D3dmeshCreateGltf(i)
    \/ PanicExit
    \/ SklPhase
    \/ SklParse
    \/ SklMeshParse
    \/ SklCopyTexture
    \/ SklCreateRiggedGltf
    \/ MainReturn

Spec == Init /\ [][Next]_vars

Rigged(d) == { i \in 1..Len(d.meshes) : d.meshes[i].rigged }

AllTexturesOk(d, i) == \A n \in 1..Len(d.meshes[i].texs) : d.meshes[i].texs[n] = "Ok"

\* C7: when main is over, every .d3dmesh file was decoded by its own task, the
\* skeleton was decoded, every mesh of a decoded skeleton was decoded on its
\* behalf, and every failed decode has its error line: no failure kept another
\* file from being decoded.
C7_SiblingDecodesUnaffected ==
    ret.phase \in {"end", "aborted"}
    => /\ ~desc.skip_mesh => ret.decoded = 1..Len(desc.meshes)
       /\ desc.skl # "none" => ret.skl.pc # "todo"
       /\ desc.skl = "Ok" => ret.skl_decoded = Rigged(desc)
       /\ \A i \in ret.decoded : desc.meshes[i].decode # "Ok" => <<"mesh", i>> \in ret.errors

\* C8: an output artefact exists only when every decode it depends on was made
\* and returned Ok: a texture after its mesh and the texture itself decoded, a
\* mesh's glTF after the mesh and all its textures, a skeleton's glTF after the
\* skeleton, all its meshes and all their textures; a file whose decode fails
\* has no artefact.
C8_NoOutputForFailedDecode ==
    \A o \in ret.outputs :
        /\ o.kind = "texture"
           => /\ desc.meshes[o.mesh].decode = "Ok"
              /\ desc.meshes[o.mesh].texs[o.n] = "Ok"
              /\ o.mesh \in (IF o.by = "mesh" THEN ret.decoded ELSE ret.skl_decoded)
              /\ o.by = "skl" => desc.skl = "Ok"
        /\ (o.kind = "gltf" /\ o.by = "mesh")
           => /\ desc.meshes[o.mesh].decode = "Ok"
              /\ o.mesh \in ret.decoded
              /\ AllTexturesOk(desc, o.mesh)
        /\ (o.kind = "gltf" /\ o.by = "skl")
           => /\ desc.skl = "Ok"
              /\ ret.skl_decoded = Rigged(desc)
              /\ \A i \in Rigged(desc) : desc.meshes[i].decode = "Ok" /\ AllTexturesOk(desc, i)

C8_Witness ==
    /\ ret.phase = "end"
    /\ \E i \in 1..Len(desc.meshes) :
         /\ desc.meshes[i].decode = "Err"
         /\ <<"mesh", i>> \in ret.errors
         /\ \A o \in ret.outputs : o.mesh # i
    /\ \E o \in ret.outputs : o.kind = "gltf" /\ o.by = "mesh"
    /\ \E o \in ret.outputs : o.kind = "texture"
    /\ desc.skl = "Ok"
    /\ ret.skl.pc = "failed"

(***************************************************************************)
(* byte_reading.rs, d3dmesh/header.rs, d3dtx/mod.rs, skeleton/mod.rs: the  *)
(* container-header step of the three decoders.                            *)
(***************************************************************************)
MaxParams == 2

\* 1296189774 and 1297371717 as the four bytes read_u32 takes them from.
MagicMBIN == <<\h4e, \h49, \h42, \h4d>>
MagicMTRE == <<\h45, \h52, \h54, \h4d>>

\* VersionHeader::parse on the four bytes read.
VersionHeaderParse(magic) ==
    CASE magic = MagicMBIN -> "MBIN"
      [] magic = MagicMTRE -> "MTRE"
      [] magic = MagicMSV5 -> "MSV5"
      [] magic = MagicMSV6 -> "MSV6"
      [] OTHER -> "Unknown"

\* A variant of the header match that also takes the legacy magics.
VersionedOrLegacy(header) == header # "Unknown"

\* The arm `VersionHeader::MSV5 | VersionHeader::MSV6` of the header match.
Versioned(header) == header \in {"MSV5", "MSV6"}

StepErr(pos, why) == [st |-> "Err", pos |-> pos, err |-> why]

\* The first statements of D3DTXHeader::parse, up to the end of the match.
D3DTXContainerHeader(b, p0) ==
    IF ~ReadOk(b, p0, 4) THEN StepErr(p0, IoErr)
    ELSE IF ~Versioned(VersionHeaderParse(Bytes(b, p0, 4)))
    THEN StepErr(p0 + 4, [kind |-> "magic"])
    ELSE IF ~ReadOk(b, p0 + 4, 4) THEN StepErr(p0 + 4, IoErr)
    ELSE IF ~ReadOk(b, p0 + 16, 4) THEN StepErr(p0 + 16, IoErr)
    ELSE [st |-> "Ok", pos |-> SeekFar(b, p0 + 20, U32At(b, p0 + 16), 12), err |-> IoErr]

\* The first statements of Skeleton::parse, up to the end of the match.
SkeletonContainerHeader(b, p0) ==
    IF ~ReadOk(b, p0, 4) THEN StepErr(p0, IoErr)
    ELSE IF ~Versioned(VersionHeaderParse(Bytes(b, p0, 4)))
    THEN StepErr(p0 + 4, [kind |-> "magic"])
    ELSE IF ~ReadOk(b, p0 + 4, 4) THEN StepErr(p0 + 4, IoErr)
    ELSE IF ~ReadOk(b, p0 + 16, 4) THEN StepErr(p0 + 16, IoErr)
    ELSE [st |-> "Ok", pos |-> SeekFar(b, p0 + 20, U32At(b, p0 + 16), 12), err |-> IoErr]

\* Magics: the four recognised ones and three Unknown values.
HeaderMagics ==
    { MagicMBIN, MagicMTRE, MagicMSV5, MagicMSV6, <<0, 0, 0, 0>>, <<\h37, \h56, \h53, \h4d>>,
      <<255, 255, 255, 255>> }

HeaderCuts == {0, 3, 30, 34}

\* decoder: whose header step is run; params: the parameter count; cut: the
\* bytes missing at the end of the file.
HeaderDescs ==
    [decoder : {"d3dmesh", "d3dtx", "skl"}, magic : HeaderMagics, params : 0..MaxParams,
     cut : HeaderCuts]

\* The file: the container header, then a name "abc" and the version byte 55.
HeaderWhole(d) ==
    d.magic \o LE32(64) \o Zeros(8) \o LE32(d.params) \o Zeros(12 * d.params)
    \o LE32(3) \o LE32(3) \o <<97, 98, 99>> \o <<55>> \o Zeros(4)

HeaderFile(d) ==
    LET w == HeaderWhole(d) IN SubSeq(w, 1, IF Len(w) > d.cut THEN Len(w) - d.cut ELSE 0)

InitHeader ==
    /\ desc \in HeaderDescs
    /\ input = HeaderFile(desc)
    /\ ret = NoRet

\* The header step of the chosen decoder is run on the file.
ParseHeader ==
    /\ ret = NoRet
    /\ ret' = CASE desc.decoder = "d3dmesh" -> D3DHeaderParse(input, 0)
                [] desc.decoder = "d3dtx" -> D3DTXContainerHeader(input, 0)
                [] desc.decoder = "skl" -> SkeletonContainerHeader(input, 0)
    /\ UNCHANGED <<desc, input>>

NextHeader == ParseHeader

SpecHeader == InitHeader /\ [][NextHeader]_vars

\* C12: for each of the three decoders a magic other than MSV5 and MSV6 (MBIN,
\* MTRE and the Unknown values included) makes the header step return an error
\* with the cursor right after the four magic bytes, so nothing further was
\* read; with MSV5 or MSV6 the step does not fail on the magic.
C12_OtherMagicFails ==
    ret # NoRet
    => IF desc.magic \in {MagicMSV5, MagicMSV6}
       THEN ret.st = "Ok" \/ ret.err.kind # "magic"
       ELSE /\ ret.st = "Err"
            /\ Len(input) >= 4 => ret.err.kind = "magic" /\ ret.pos = 4
            /\ ret.pos <= 4

C12_Witness ==
    /\ ret # NoRet
    /\ desc.decoder = "skl"
    /\ desc.magic = MagicMTRE
    /\ desc.cut = 0
    /\ desc.params = MaxParams
    /\ ret.st = "Err"
    /\ ret.err.kind = "magic"
    /\ ret.pos = 4

(***************************************************************************)
(* d3dmesh/mesh.rs: the packed bone weights (weights format 42).  The code *)
(* computes in f32; a finite f32 is held as sign, 24-bit significand m and *)
(* exponent e, its value being m * 2^e with 2^23 <= m < 2^24, or m = 0.    *)
(* Every operation rounds to nearest, ties to even, as the hardware does.  *)
(* The values met here are far from the subnormal and the infinite range.  *)
(***************************************************************************)
F32Zero == [neg |-> FALSE, m |-> 0, e |-> 0]

\* The f32 of significand m < 2^24 and exponent e, brought to its normal form.
RECURSIVE F32Norm(_, _, _)
F32Norm(neg, m, e) ==
    IF m = 0 THEN F32Zero
    ELSE IF m < 2^23 THEN F32Norm(neg, 2 * m, e - 1)
    ELSE [neg |-> neg, m |-> m, e |-> e]

\* The number of low bits to drop from M to leave 24.
RECURSIVE F32Drop(_, _)
F32Drop(M, s) == IF M \div 2^s < 2^24 THEN s ELSE F32Drop(M, s + 1)

\* M * 2^e, plus a non-zero fraction of 2^e when sticky, rounded to an f32.
F32Round(neg, M, e, sticky) ==
    IF M < 2^24 THEN F32Norm(neg, M, e)
    ELSE
      LET s == F32Drop(M, 1)
          q == M \div 2^s
          rest == M % 2^s
          half == 2^(s - 1)
          up == rest > half \/ (rest = half /\ (sticky \/ q % 2 = 1))
          m == IF up THEN q + 1 ELSE q
      IN  IF m = 2^24 THEN [neg |-> neg, m |-> 2^23, e |-> e + s + 1]
          ELSE [neg |-> neg, m |-> m, e |-> e + s]

\* `n as f32` for 0 <= n < 2^24.
F32FromInt(n) == F32Norm(FALSE, n, 0)

\* Long division: quotient bits are added until the quotient has 26 of them.
RECURSIVE F32Quotient(_, _, _, _)
F32Quotient(q, r, d, k) ==
    IF q >= 2^25 THEN [q |-> q, r |-> r, k |-> k]
    ELSE F32Quotient(2 * q + (2 * r) \div d, (2 * r) % d, d, k + 1)

\* x / d for the f32 x and a divisor d that is a small whole number.
F32DivInt(x, d) ==
    IF x.m = 0 THEN F32Zero
    ELSE LET t == F32Quotient(x.m \div d, x.m % d, d, 0)
         IN  F32Round(x.neg, t.q, x.e - t.k, t.r > 0)

\* big + small for non-zero f32 with big.e >= small.e: the significands are
\* aligned with three more bits, the last of them sticky.
F32AddAligned(big, small) ==
    LET d == big.e - small.e
        B == big.m * 8
        S0 == IF d > 27 THEN 0 ELSE (small.m * 8) \div 2^d
        lost == IF d > 27 THEN TRUE ELSE (small.m * 8) % 2^d # 0
        S == IF lost /\ S0 % 2 = 0 THEN S0 + 1 ELSE S0
        v == (IF big.neg THEN 0 - B ELSE B) + (IF small.neg THEN 0 - S ELSE S)
    IN  IF v = 0 THEN F32Zero
        ELSE F32Round(v < 0, IF v < 0 THEN 0 - v ELSE v, big.e - 3, FALSE)

F32Add(x, y) ==
    IF x.m = 0 THEN y
    ELSE IF y.m = 0 THEN x
    ELSE IF x.e >= y.e THEN F32AddAligned(x, y)
    ELSE F32AddAligned(y, x)

F32Sub(x, y) == F32Add(x, [y EXCEPT !.neg = (y.m # 0 /\ ~y.neg)])

F32One == F32FromInt(1)

\* The four bit fields of weight_vars, read as a little-endian u32 at pos:
\* bits 0-9, bits 10-19, bits 20-29 and bits 30-31.
WeightBits(b, pos) ==
    [lo |-> U8At(b, pos) + (U8At(b, pos + 1) % 4) * 256,
     mid |-> U8At(b, pos + 1) \div 4 + (U8At(b, pos + 2) % 16) * 64,
     hi |-> U8At(b, pos + 2) \div 16 + (U8At(b, pos + 3) % 64) * 16,
     top |-> U8At(b, pos + 3) \div 64]

\* A variant of the remainder that leaves the second weight out.
WeightRemainderOfTwo(weight_2, weight_3, weight_4) ==
    F32Sub(F32Sub(F32One, weight_3), weight_4)

\* `1.0 - weight_2 - weight_3 - weight_4`
WeightRemainder(weight_2, weight_3, weight_4) ==
    With(F32Sub(F32One, weight_2), LAMBDA a :
    With(F32Sub(a, weight_3), LAMBDA c : F32Sub(c, weight_4)))

\* One pass of the format-42 loop with the cursor at pos: the Vector4 pushed,
\* x = weight_1, y = weight_2, z = weight_3, w = weight_4.
PackedWeights(b, pos) ==
    With(WeightBits(b, pos), LAMBDA f :
    With(F32Add(F32DivInt(F32DivInt(F32FromInt(f.lo), 1023), 8),
                F32DivInt(F32FromInt(f.top), 8)), LAMBDA weight_2 :
    With(F32DivInt(F32DivInt(F32FromInt(f.mid), 1023), 3), LAMBDA weight_3 :
    With(F32DivInt(F32DivInt(F32FromInt(f.hi), 1023), 4), LAMBDA weight_4 :
    With(WeightRemainder(weight_2, weight_3, weight_4), LAMBDA weight_1 :
      [x |-> weight_1, y |-> weight_2, z |-> weight_3, w |-> weight_4])))))

\* Values of the three 10-bit fields.
WeightFields == {0, 1, 341, 682, 1022, 1023}

WeightDescs == [lo : WeightFields, mid : WeightFields, hi : WeightFields, top : 0..3]

\* The word of a description as its four bytes, lowest first.
WeightWord(d) ==
    << d.lo % 256,
       d.lo \div 256 + (d.mid % 64) * 4,
       d.mid \div 64 + (d.hi % 16) * 16,
       d.hi \div 16 + d.top * 64 >>

InitWeights ==
    /\ desc \in WeightDescs
    /\ input = WeightWord(desc)
    /\ ret = NoRet

\* One word is read and decoded.
DecodeWeights ==
    /\ ret = NoRet
    /\ ret' = [st |-> "Ok", pos |-> 4, weights |-> PackedWeights(input, 0)]
    /\ UNCHANGED <<desc, input>>

NextWeights == DecodeWeights

SpecWeights == InitWeights /\ [][NextWeights]_vars


\* The four weights added up in f32, in the order of the vector's components.
WeightSum(v) == With(F32Add(v.x, v.y), LAMBDA a : With(F32Add(a, v.z), LAMBDA c : F32Add(c, v.w)))

\* C13 as stated: for every word the four decoded weights sum to exactly 1.0.
C13_WeightsSumToOne ==
    ret # NoRet => WeightSum(ret.weights) = F32One

\* An f32 that is 1.0 or one of its neighbours on either side within 2^-23:
\* 1 - 2^-23, 1 - 2^-24 and 1 + 2^-23.
NearOne(s) ==
    /\ ~s.neg
    /\ \/ s = F32One
       \/ s.e = 0 - 24 /\ s.m >= 2^24 - 2
       \/ s.e = 0 - 23 /\ s.m = 2^23 + 1

\* C13 in f32: weight_2, weight_3 and weight_4 are the rounded quotients of the
\* bit fields, weight_1 is the rounded remainder ((1 - weight_2) - weight_3) -
\* weight_4, and the four add up to 1.0 within 2^-23.
C13_WeightsSumNearOne ==
    ret # NoRet
    => /\ ret.weights.z = F32DivInt(F32DivInt(F32FromInt(desc.mid), 1023), 3)
       /\ ret.weights.w = F32DivInt(F32DivInt(F32FromInt(desc.hi), 1023), 4)
       /\ ret.weights.x
          = F32Sub(F32Sub(F32Sub(F32One, ret.weights.y), ret.weights.z), ret.weights.w)
       /\ NearOne(WeightSum(ret.weights))

C13_Witness ==
    /\ ret # NoRet
    /\ desc = [lo |-> 0, mid |-> 1023, hi |-> 341, top |-> 0]
    /\ ret.weights.y = F32Zero
    /\ ret.weights.z = [neg |-> FALSE, m |-> 11184811, e |-> 0 - 25]
    /\ WeightSum(ret.weights) = [neg |-> FALSE, m |-> 2^24 - 1, e |-> 0 - 24]

\* An f32 in [0, 1].
F32InUnit(x) == x.m = 0 \/ (~x.neg /\ (x = F32One \/ x.e < 0 - 23))

\* C28 as stated: for every word each of the four decoded weights lies in
\* [0, 1]; the remainder weight_1 is never negative.
C28_WeightsInUnitRange ==
    ret # NoRet
    => /\ F32InUnit(ret.weights.x)
       /\ F32InUnit(ret.weights.y)
       /\ F32InUnit(ret.weights.z)
       /\ F32InUnit(ret.weights.w)

\* weight_2, weight_3 and weight_4 lie in [0, 1] for every word, and so does
\* weight_1 when the two top bits are clear.
QuotientWeightsInUnitRange ==
    ret # NoRet
    => /\ F32InUnit(ret.weights.y)
       /\ F32InUnit(ret.weights.z)
       /\ F32InUnit(ret.weights.w)
       /\ desc.top = 0 => F32InUnit(ret.weights.x)

\* The word 0xFFFFFFFF: weight_1 = 1 - 0.5 - 1/3 - 1/4 is negative.
NegativeRemainderReached ==
    /\ ret # NoRet
    /\ desc = [lo |-> 1023, mid |-> 1023, hi |-> 1023, top |-> 3]
    /\ ret.weights.x.neg
    /\ ret.weights.x.m # 0

(***************************************************************************)
(* skeleton/mod.rs: calculate_inverse_bind_matrices.  A matrix is held as  *)
(* its four rows, so M[r][c] is row r, column c, and a translation stands  *)
(* in column 4.  The joints carry whole-number translations and unit       *)
(* quaternions with whole-number components, for which the f32 arithmetic  *)
(* of the code is exact.                                                   *)
(***************************************************************************)
MaxJoints == 2

Mat4(F(_, _)) ==
    << <<F(1, 1), F(1, 2), F(1, 3), F(1, 4)>>, <<F(2, 1), F(2, 2), F(2, 3), F(2, 4)>>,
       <<F(3, 1), F(3, 2), F(3, 3), F(3, 4)>>, <<F(4, 1), F(4, 2), F(4, 3), F(4, 4)>> >>

Mat4Identity == Mat4(LAMBDA r, c : IF r = c THEN 1 ELSE 0)

\* Matrix4::from_translation
FromTranslation(t) ==
    <<<<1, 0, 0, t[1]>>, <<0, 1, 0, t[2]>>, <<0, 0, 1, t[3]>>, <<0, 0, 0, 1>>>>

\* Basis3::from_quaternion widened to 4x4 by Matrix4::from_cols; q has the
\* scalar part s and the vector part x, y, z.
FromQuaternion(q) ==
    LET x2 == q.x + q.x
        y2 == q.y + q.y
        z2 == q.z + q.z
        xx2 == x2 * q.x
        xy2 == x2 * q.y
        xz2 == x2 * q.z
        yy2 == y2 * q.y
        yz2 == y2 * q.z
        zz2 == z2 * q.z
        sx2 == x2 * q.s
        sy2 == y2 * q.s
        sz2 == z2 * q.s
    IN  <<<<1 - yy2 - zz2, xy2 - sz2, xz2 + sy2, 0>>,
          <<xy2 + sz2, 1 - xx2 - zz2, yz2 - sx2, 0>>,
          <<xz2 - sy2, yz2 + sx2, 1 - xx2 - yy2, 0>>,
          <<0, 0, 0, 1>>>>

\* `a * b` of two Matrix4.
Mat4Mul(a, b) ==
    Mat4(LAMBDA r, c : a[r][1] * b[1][c] + a[r][2] * b[2][c] + a[r][3] * b[3][c]
                       + a[r][4] * b[4][c])

\* The three of 1..4 that are not i, in order.
Others(i) == SelectSeq(<<1, 2, 3, 4>>, LAMBDA k : k # i)

\* The determinant of the 3x3 matrix left of m without row r and column c.
Minor(m, r, c) ==
    LET R == Others(r)
        C == Others(c)
        a(i, j) == m[R[i]][C[j]]
    IN  a(1, 1) * (a(2, 2) * a(3, 3) - a(2, 3) * a(3, 2))
        - a(1, 2) * (a(2, 1) * a(3, 3) - a(2, 3) * a(3, 1))
        + a(1, 3) * (a(2, 1) * a(3, 2) - a(2, 2) * a(3, 1))

Cofactor(m, r, c) == IF (r + c) % 2 = 0 THEN Minor(m, r, c) ELSE 0 - Minor(m, r, c)

Determinant(m) ==
    m[1][1] * Cofactor(m, 1, 1) + m[1][2] * Cofactor(m, 1, 2) + m[1][3] * Cofactor(m, 1, 3)
    + m[1][4] * Cofactor(m, 1, 4)

\* A variant of the inversion that hands the matrix back as it is.
NotInverted(m) == [st |-> "Ok", m |-> m]

\* inverse_transform(): None for a singular matrix, else the cofactors of the
\* transpose times 1 / determinant (the determinant is 1 or -1 here).
InverseTransform(m) ==
    With(Determinant(m), LAMBDA det :
      IF det = 0 THEN [st |-> "Panic", m |-> Mat4Identity]
      ELSE [st |-> "Ok", m |-> Mat4(LAMBDA r, c : Cofactor(m, c, r) * det)])

\* `if f32::abs(matrix.w.w - 1.0) < 0.0001 { matrix.w.w = 1.0 }`
\* (among whole numbers only 1 is that near to 1)
SnapCorner(m) == IF m[4][4] = 1 THEN [m EXCEPT ![4][4] = 1] ELSE m

\* inverse_bind_matrix_for_joint(joints, index), index counted from 0; depth
\* is the number of calls on the stack.  A parent index beyond the list is an
\* index panic, a parent chain that comes back to a joint never returns.
RECURSIVE inverse_bind_matrix_for_joint(_, _, _)
inverse_bind_matrix_for_joint(joints, index, depth) ==
    IF index >= Len(joints) THEN [st |-> "Panic", m |-> Mat4Identity]
    ELSE IF depth > Len(joints) THEN [st |-> "Overflow", m |-> Mat4Identity]
    ELSE
      With(joints[index + 1], LAMBDA joint :
      With(Mat4Mul(FromTranslation(joint.translation), FromQuaternion(joint.rotation)),
           LAMBDA matrix :
      With(InverseTransform(matrix), LAMBDA inv :
        IF inv.st # "Ok" THEN inv
        ELSE IF joint.parent = <<>> THEN [st |-> "Ok", m |-> SnapCorner(inv.m)]
        ELSE With(inverse_bind_matrix_for_joint(joints, joint.parent[1], depth + 1),
                  LAMBDA up :
               IF up.st # "Ok" THEN up
               ELSE [st |-> "Ok", m |-> Mat4Mul(SnapCorner(inv.m), up.m)]))))

\* The loop of calculate_inverse_bind_matrices, joints index.. still to do.
RECURSIVE InverseBindLoop(_, _, _)
InverseBindLoop(joints, index, matrices) ==
    IF index = Len(joints) THEN [st |-> "Ok", matrices |-> matrices]
    ELSE With(inverse_bind_matrix_for_joint(joints, index, 1), LAMBDA one :
           IF one.st # "Ok" THEN [st |-> one.st, matrices |-> <<>>]
           ELSE InverseBindLoop(joints, index + 1, Append(matrices, one.m)))

calculate_inverse_bind_matrices(joints) == InverseBindLoop(joints, 0, <<>>)

QuatIdentity == [s |-> 1, x |-> 0, y |-> 0, z |-> 0]

\* A half turn about the x axis.
QuatHalfTurnX == [s |-> 0, x |-> 1, y |-> 0, z |-> 0]

JointTranslations == { <<0, 0, 0>>, <<0, 1, 0>>, <<2, 0, 0 - 3>> }

\* Joint::parse: the parent of a raw index; <<>> is None and <<p>> is Some(p).
JointParent(bone_parent) == IF bone_parent > 1000000 THEN <<>> ELSE <<bone_parent>>

\* The raw parent indices of the files: indices of joints, the largest index
\* that is kept and the smallest that reads as no parent.
RawParents == (0..(MaxJoints - 1)) \cup {1000000, 1000001}

Joints ==
    [parent : { JointParent(raw) : raw \in RawParents }, translation : JointTranslations,
     rotation : {QuatIdentity, QuatHalfTurnX}]

JointLists == UNION { [1..n -> Joints] : n \in 1..MaxJoints }

InitSkeleton ==
    /\ desc \in JointLists
    /\ input = <<>>
    /\ ret = NoRet

\* calculate_inverse_bind_matrices is called on the joints parsed.
CalculateInverseBindMatrices ==
    /\ ret = NoRet
    /\ ret' = calculate_inverse_bind_matrices(desc)
    /\ UNCHANGED <<desc, input>>

NextSkeleton == CalculateInverseBindMatrices

SpecSkeleton == InitSkeleton /\ [][NextSkeleton]_vars

\* The sum of the local translations from joint index up its parent chain.
RECURSIVE ChainSum(_, _, _)
ChainSum(joints, index, depth) ==
    IF index >= Len(joints) \/ depth > Len(joints) THEN <<0, 0, 0>>
    ELSE LET t == joints[index + 1].translation
             up == IF joints[index + 1].parent = <<>> THEN <<0, 0, 0>>
                   ELSE ChainSum(joints, joints[index + 1].parent[1], depth + 1)
         IN  <<t[1] + up[1], t[2] + up[2], t[3] + up[3]>>

Negated(t) == <<0 - t[1], 0 - t[2], 0 - t[3]>>

IdentityRotations(joints) == \A i \in 1..Len(joints) : joints[i].rotation = QuatIdentity

\* C14: for a skeleton with identity rotations every inverse bind matrix is the
\* translation by the negated sum of the local translations along the joint's
\* parent chain; for a root with zero translation that is the identity.
C14_InverseBindIsNegatedChain ==
    (ret # NoRet /\ ret.st = "Ok" /\ IdentityRotations(desc))
    => /\ Len(ret.matrices) = Len(desc)
       /\ \A i \in 1..Len(desc) :
            /\ ret.matrices[i] = FromTranslation(Negated(ChainSum(desc, i - 1, 1)))
            /\ (desc[i].parent = <<>> /\ desc[i].translation = <<0, 0, 0>>)
               => ret.matrices[i] = Mat4Identity

\* Root and child, the child translated by (0,1,0): [I, translate(0,-1,0)].
C14_Witness ==
    /\ ret # NoRet
    /\ desc = << [parent |-> <<>>, translation |-> <<0, 0, 0>>, rotation |-> QuatIdentity],
                 [parent |-> <<0>>, translation |-> <<0, 1, 0>>, rotation |-> QuatIdentity] >>
    /\ ret.st = "Ok"
    /\ ret.matrices = <<Mat4Identity, FromTranslation(<<0, 0 - 1, 0>>)>>

\* The walk from joint index (counted from 0) along the parents: "None" when it
\* reaches a joint without parent within steps joints, "Beyond" when it leaves
\* the list, "Cycle" when steps joints were not enough.
RECURSIVE ParentWalk(_, _, _)
ParentWalk(joints, index, steps) ==
    IF index >= Len(joints) THEN "Beyond"
    ELSE IF steps = 0 THEN "Cycle"
    ELSE IF joints[index + 1].parent = <<>> THEN "None"
    ELSE ParentWalk(joints, joints[index + 1].parent[1], steps - 1)

ParentsWellFormed(joints) ==
    \A i \in 1..Len(joints) : ParentWalk(joints, i - 1, Len(joints)) = "None"

\* C27 as stated: for every joint list the decoder can produce the walk from
\* every joint reaches a joint without parent within joints.len() steps and
\* stays inside the list, so the matrices are computed.
C27_ParentWalkEnds ==
    ret # NoRet => ParentsWellFormed(desc) /\ ret.st = "Ok"

\* The walk ends and the matrices are computed exactly for the lists whose
\* parent indices are inside the list and form no cycle; an index beyond the
\* list is an index panic and a cycle a recursion without end.
ParentWalkEndsIfWellFormed ==
    ret # NoRet
    => /\ ParentsWellFormed(desc) <=> ret.st = "Ok"
       /\ ret.st = "Ok" => Len(ret.matrices) = Len(desc)
       /\ (\E i \in 1..Len(desc) : ParentWalk(desc, i - 1, Len(desc)) = "Cycle")
          => ret.st \in {"Overflow", "Panic"}

ParentCycleReached ==
    /\ ret # NoRet
    /\ Len(desc) = 2
    /\ desc[1].parent = <<1>>
    /\ desc[2].parent = <<0>>
    /\ ret.st = "Overflow"

(***************************************************************************)
(* d3dmesh/textures.rs: Texture::parse on its own, with its reads, its     *)
(* cursor and the warning it logs.                                         *)
(***************************************************************************)
HashZero == <<0, 0, 0, 0, 0, 0, 0, 0>>

\* Texture::parse with the cursor at pos: two read_u64, then the lookup.
TextureRead(b, pos) ==
    IF ~ReadOk(b, pos, 8)
    THEN [st |-> "Err", pos |-> pos, texture |-> <<>>, warned |-> FALSE]
    ELSE IF ~ReadOk(b, pos + 8, 8)
    THEN [st |-> "Err", pos |-> pos + 8, texture |-> <<>>, warned |-> FALSE]
    ELSE [st |-> "Ok", pos |-> pos + TextureSize, texture |-> <<TextureParse(b, pos)>>,
          warned |-> ~HasMapping(U64At(b, pos + 8)) /\ U64At(b, pos + 8) # HashZero]

\* Usage hashes: Diffuse/Map, Normal/MapB, DamageMask/MapA, zero and two that
\* the match does not enumerate.
TextureTypeHashes ==
    { <<\h86, \h48, \hfa, \h82, \hd1, \hdb, \hee, \h1a>>,
      <<\h3f, \h38, \h00, \h50, \haf, \hd9, \hf8, \h1f>>,
      <<\h2b, \h6c, \h47, \h84, \h5f, \h60, \h77, \h34>>,
      HashZero,
      <<\h01, \h01, \h01, \h01, \h01, \h01, \h01, \h01>>,
      <<\h86, \h48, \hfa, \h82, \hd1, \hdb, \hee, \h1b>> }

\* Content hashes: the two of the lookup table, zero and two that miss.
TextureContentHashes ==
    { e[1] : e \in ChecksumEntries }
    \cup { HashZero, <<\h99, \h99, \h99, \h99, \h99, \h99, \h99, \h99>>,
           <<\h11, \h22, \h33, \h44, \h55, \h66, \h77, \h89>> }

\* lead: bytes before the record; cut: bytes missing at the end of the input.
TextureDescs ==
    [th : TextureTypeHashes, xh : TextureContentHashes, lead : {0, 3}, cut : {0, 1, 8, 9}]

TextureFile(d) ==
    LET w == Zeros(d.lead) \o LE64(d.th) \o LE64(d.xh)
    IN  SubSeq(w, 1, Len(w) - d.cut)

InitTexture ==
    /\ desc \in TextureDescs
    /\ input = TextureFile(desc)
    /\ ret = NoRet

\* Texture::parse is called on the record.
ParseTexture ==
    /\ ret = NoRet
    /\ ret' = TextureRead(input, desc.lead)
    /\ UNCHANGED <<desc, input>>

NextTexture == ParseTexture

SpecTexture == InitTexture /\ [][NextTexture]_vars

\* C16: Texture::parse on a complete record returns Ok with the cursor 16 bytes
\* on, whatever the two hashes; a content hash the lookup table does not hold
\* gives kind Unknown, map Unknown and the empty name, whatever the usage hash,
\* and the warning is logged exactly when that hash is not zero; a content hash
\* the table holds gives its name and the kind and map of the usage hash,
\* without a warning.
C16_LookupMissIsUnknown ==
    (ret # NoRet /\ desc.cut = 0)
    => /\ ret.st = "Ok"
       /\ ret.pos = desc.lead + 16
       /\ IF \E e \in ChecksumEntries : e[1] = desc.xh
          THEN /\ ret.texture[1].name = (CHOOSE e \in ChecksumEntries : e[1] = desc.xh)[2]
               /\ <<ret.texture[1].kind, ret.texture[1].map>> = TextureTypeOf(desc.th)
               /\ ~ret.warned
          ELSE /\ ret.texture[1] = [kind |-> "Unknown", map |-> "Unknown", name |-> ""]
               /\ ret.warned <=> desc.xh # HashZero

C16_Witness ==
    /\ ret # NoRet
    /\ desc.th = <<\h3f, \h38, \h00, \h50, \haf, \hd9, \hf8, \h1f>>
    /\ desc.xh = <<\h99, \h99, \h99, \h99, \h99, \h99, \h99, \h99>>
    /\ desc.lead = 3
    /\ ret.st = "Ok"
    /\ ret.pos = 19
    /\ ret.texture[1].kind = "Unknown"
    /\ ret.warned


(***************************************************************************)
(* d3dtx/bcn_image.rs, enc565_decode on its own: every 16-bit value is     *)
(* expanded once.                                                          *)
(***************************************************************************)
InitExpand ==
    /\ desc \in [value : 0..65535]
    /\ input = LE16(desc.value)
    /\ ret = NoRet

\* The packed value is read from its two bytes and expanded.
Expand565 ==
    /\ ret = NoRet
    /\ ret' = [st |-> "Ok", rgb |-> enc565_decode(input[1] + 256 * input[2])]
    /\ UNCHANGED <<desc, input>>

NextExpand == Expand565

SpecExpand == InitExpand /\ [][NextExpand]_vars

\* The 5-, 6- and 5-bit fields of a packed value, highest first.
Fields565(value) == <<value \div 2048, (value \div 32) % 64, value % 32>>

\* The largest n with n * d <= x, found without the division the code uses.
FloorOf(x, d) == CHOOSE n \in 0..255 : n * d <= x /\ x < (n + 1) * d

\* C17: every 16-bit 5-6-5 value expands to floor(r*255/31), floor(g*255/63),
\* floor(b*255/31), the products taken without wrapping; a channel field of 0
\* gives 0 and a maximal field gives 255, so 0x0000 gives (0,0,0) and 0xFFFF
\* gives (255,255,255).
C17_Expand565 ==
    ret # NoRet
    => LET f == Fields565(desc.value)
       IN  /\ ret.rgb = <<FloorOf(f[1] * 255, 31), FloorOf(f[2] * 255, 63), FloorOf(f[3] * 255, 31)>>
           /\ \A c \in 1..3 : f[c] = 0 => ret.rgb[c] = 0
           /\ f[1] = 31 => ret.rgb[1] = 255
           /\ f[2] = 63 => ret.rgb[2] = 255
           /\ f[3] = 31 => ret.rgb[3] = 255
           /\ desc.value = 0 => ret.rgb = <<0, 0, 0>>
           /\ desc.value = 65535 => ret.rgb = <<255, 255, 255>>

C17_Witness ==
    /\ ret # NoRet
    /\ desc.value = 65535
    /\ ret.rgb = <<255, 255, 255>>


(***************************************************************************)
(* d3dtx/bcn_image.rs: DxtDecoder.  An image of a variant is decoded from  *)
(* a stream: the decoder is constructed, read_image allocates the buffer   *)
(* and splits it into scanlines of four pixel rows, read_scanline fills    *)
(* one scanline per step, and the buffer becomes the image.                *)
(***************************************************************************)
decoded_bytes_per_block(variant) ==
    CASE variant = "BC1" -> 48 [] variant \in {"BC2", "BC3"} -> 64 [] variant = "BC4" -> 16
      [] variant = "BC5" -> 32

\* color_type().bytes_per_pixel(): Rgb8, Rgba8, L8 and La8.
bytes_per_pixel(variant) ==
    CASE variant = "BC1" -> 3 [] variant \in {"BC2", "BC3"} -> 4 [] variant = "BC4" -> 1
      [] variant = "BC5" -> 2

\* A variant of the constructor that rejects nothing.
DxtDecoderNewAcceptsAll(width, height, variant) ==
    [st |-> "Decoder", width_blocks |-> width \div 4, height_blocks |-> height \div 4,
     variant |-> variant, row |-> 0]

\* DxtDecoder::new: the only test is divisibility by 4.
DxtDecoderNew(width, height, variant) ==
    IF width % 4 # 0 \/ height % 4 # 0
    THEN [st |-> "Err", why |-> "not a multiple of 4"]
    ELSE [st |-> "Decoder", width_blocks |-> width \div 4, height_blocks |-> height \div 4,
          variant |-> variant, row |-> 0]

scanline_bytes(d) == decoded_bytes_per_block(d.variant) * d.width_blocks

dimensions(d) == <<d.width_blocks * 4, d.height_blocks * 4>>

total_bytes(d) == dimensions(d)[1] * dimensions(d)[2] * bytes_per_pixel(d.variant)

\* One block of a variant decoded to its 4x4 pixels.
BcnBlock(variant, source) ==
    CASE variant = "BC1" -> decode_bc1_block(source)
      [] variant = "BC2" -> decode_dxt3_block(source)
      [] variant = "BC3" -> decode_dxt5_block(source)
      [] variant = "BC4" -> decode_bc4_block(source)
      [] variant = "BC5" -> decode_bc5_block(source)

\* A variant of the row decoders that lays the decoded blocks one after another.
BcnRowBlockwise(variant, source) ==
    LET E == encoded_bytes_per_block(variant)
        D == decoded_bytes_per_block(variant)
        block_count == Len(source) \div E
    IN  [k \in 1..(block_count * D) |->
           BcnBlock(variant, SubSeq(source, ((k - 1) \div D) * E + 1,
                                    ((k - 1) \div D) * E + E))[((k - 1) % D) + 1]]

\* decode_*_row: the blocks of a row are decoded and each of their four lines
\* is copied to offset (block_count * line + x) * unit of the scanline, unit
\* being the bytes of one line of one block.
BcnRow(variant, source) ==
    LET E == encoded_bytes_per_block(variant)
        block_count == Len(source) \div E
        unit == decoded_bytes_per_block(variant) \div 4
        blocks == [x \in 0..(block_count - 1) |->
                     BcnBlock(variant, SubSeq(source, x * E + 1, x * E + E))]
    IN  [k \in 1..(block_count * decoded_bytes_per_block(variant)) |->
           LET q == (k - 1) \div unit
               line == q \div block_count
               x == q % block_count
           IN  blocks[x][line * unit + ((k - 1) % unit) + 1]]

\* The number of chunks chunks_mut splits a buffer of len bytes into.
ChunkCount(len, chunk_size) == (len + chunk_size - 1) \div chunk_size

(***************************************************************************)
(* The enumerated images: a variant, the two dimensions of the header, and *)
(* a stream that holds the blocks of the image, short bytes fewer or extra *)
(* bytes more.                                                             *)
(***************************************************************************)
ImageDims == {0, 2, 4, 6, 8, 12}

ImageDescs ==
    [variant : {"BC1", "BC2", "BC3", "BC4", "BC5"}, width : ImageDims, height : ImageDims,
     seed : {0, 129}, short : {0, 1}, extra : {0, 3}]

\* The bytes the image of d needs: Ceil(width / 4) * Ceil(height / 4) blocks.
ImageNeed(d) ==
    ((d.width + 3) \div 4) * ((d.height + 3) \div 4) * encoded_bytes_per_block(d.variant)

ImageStream(d) ==
    LET n == ImageNeed(d) + d.extra
        m == IF d.short > n THEN 0 ELSE n - d.short
    IN  [j \in 1..m |-> (d.seed + 37 * ((j - 1) \div 8) + 11 * j) % 256]

InitImage ==
    /\ desc \in ImageDescs
    /\ input = ImageStream(desc)
    /\ ret = NoRet

\* Texture::parse constructs the decoder from the dimensions of the header.
NewDecoder ==
    /\ ret = NoRet
    /\ ret' = LET d == DxtDecoderNew(desc.width, desc.height, desc.variant)
              IN  IF d.st = "Err" THEN d
                  ELSE [st |-> "Decoder", decoder |-> d, pos |-> 0]
    /\ UNCHANGED <<desc, input>>

\* read_image up to the loop: the buffer is allocated and split; chunks_mut
\* asserts that the chunk size is not zero.
ReadImageBegin ==
    /\ ret.st = "Decoder"
    /\ ret' = IF scanline_bytes(ret.decoder) = 0
              THEN [st |-> "Panic", why |-> "chunk size must be non-zero"]
              ELSE [st |-> "Reading", decoder |-> ret.decoder, pos |-> ret.pos,
                    buf |-> [k \in 1..total_bytes(ret.decoder) |-> 0],
                    chunks |-> ChunkCount(total_bytes(ret.decoder), scanline_bytes(ret.decoder)),
                    reads |-> 0]
    /\ UNCHANGED <<desc, input>>

\* One turn of the loop: read_scanline on the next chunk.
ReadScanline ==
    /\ ret.st = "Reading"
    /\ ret.reads < ret.chunks
    /\ ret' = LET d == ret.decoder
                  n == encoded_bytes_per_block(d.variant) * d.width_blocks
                  off == ret.reads * scanline_bytes(d)
                  len == IF total_bytes(d) - off < scanline_bytes(d)
                         THEN total_bytes(d) - off ELSE scanline_bytes(d)
              IN  IF len # scanline_bytes(d)
                  THEN [st |-> "Panic", why |-> "assert_eq buf.len()"]
                  ELSE IF Len(input) - ret.pos < n
                  THEN [st |-> "Err", why |-> "failed to fill whole buffer", reads |-> ret.reads + 1]
                  ELSE LET row == BcnRow(d.variant, SubSeq(input, ret.pos + 1, ret.pos + n))
                       IN  [ret EXCEPT !.decoder.row = @ + 1,
                                       !.pos = @ + n,
                                       !.reads = @ + 1,
                                       !.buf = [k \in 1..Len(ret.buf) |->
                                                  IF k > off /\ k <= off + len
                                                  THEN row[k - off] ELSE ret.buf[k]]]
    /\ UNCHANGED <<desc, input>>

\* After the loop the buffer becomes the image; from_vec accepts a buffer that
\* holds width * height pixels.
ReadImageEnd ==
    /\ ret.st = "Reading"
    /\ ret.reads = ret.chunks
    /\ ret' = LET dim == dimensions(ret.decoder)
              IN  IF Len(ret.buf) < dim[1] * dim[2] * bytes_per_pixel(ret.decoder.variant)
                  THEN [st |-> "Err", why |-> "could not construct image", reads |-> ret.reads]
                  ELSE [st |-> "Ok", width |-> dim[1], height |-> dim[2], buf |-> ret.buf,
                        pos |-> ret.pos, reads |-> ret.reads, row |-> ret.decoder.row]
    /\ UNCHANGED <<desc, input>>

NextImage == NewDecoder \/ ReadImageBegin \/ ReadScanline \/ ReadImageEnd

SpecImage == InitImage /\ [][NextImage]_vars

IsPowerOfTwo(n) == n \in {1, 2, 4, 8, 16}

ImageFinal == ret # NoRet /\ ret.st \in {"Ok", "Err", "Panic"}

\* C19 as stated: for every variant and accepted width and height, read_image
\* on a stream that holds enough bytes makes height/4 scanline reads, consumes
\* (width/4)*(height/4)*E bytes, returns (width/4)*(height/4)*D bytes, and
\* does not panic.
C19_ReadImageSizes ==
    (ret # NoRet /\ desc.width % 4 = 0 /\ desc.height % 4 = 0 /\ desc.short = 0)
    => /\ ret.st \notin {"Err", "Panic"}
       /\ ret.st = "Ok"
          => /\ ret.reads = desc.height \div 4
             /\ ret.row = desc.height \div 4
             /\ ret.pos = (desc.width \div 4) * (desc.height \div 4)
                            * encoded_bytes_per_block(desc.variant)
             /\ Len(ret.buf) = (desc.width \div 4) * (desc.height \div 4)
                                 * decoded_bytes_per_block(desc.variant)

\* With a width that is not 0 the sizes and counts are as stated.
ReadImageSizesNonZeroWidth ==
    desc.width # 0 => C19_ReadImageSizes

ReadImageTwoScanlines ==
    /\ ret # NoRet
    /\ ret.st = "Ok"
    /\ desc.width = 12
    /\ desc.height = 8
    /\ ret.reads = 2


(***************************************************************************)
(* d3dtx/bcn_image.rs, alpha_table_dxt5 on its own: the table of every     *)
(* pair of 8-bit endpoints is built once.                                  *)
(***************************************************************************)
InitAlpha ==
    /\ desc \in [alpha0 : 0..255, alpha1 : 0..255]
    /\ input = <<desc.alpha0, desc.alpha1>>
    /\ ret = NoRet

\* The table is built from the two endpoint bytes of a block.
BuildAlphaTable ==
    /\ ret = NoRet
    /\ ret' = [st |-> "Ok", table |-> alpha_table_dxt5(input[1], input[2])]
    /\ UNCHANGED <<desc, input>>

NextAlpha == BuildAlphaTable

SpecAlpha == InitAlpha /\ [][NextAlpha]_vars

\* n is the floor of x / d.
IsFloor(n, x, d) == n * d <= x /\ x < (n + 1) * d

Between(v, a, b) == (a <= v /\ v <= b) \/ (b <= v /\ v <= a)

\* C24: entries 0 and 1 are the endpoints; with alpha0 > alpha1 entries 2..7
\* are floor(((8-i)*alpha0 + (i-1)*alpha1)/7); otherwise entries 2..5 are
\* floor(((6-i)*alpha0 + (i-1)*alpha1)/5), entry 6 is 0 and entry 7 is 255; the
\* weighted sums stay below 2^16 and every interpolated entry lies between the
\* endpoints.
C24_AlphaTable ==
    ret # NoRet
    => LET a0 == desc.alpha0
           a1 == desc.alpha1
           t == ret.table
       IN  /\ Len(t) = 8
           /\ t[1] = a0
           /\ t[2] = a1
           /\ a0 > a1
              => \A i \in 2..7 :
                   /\ (8 - i) * a0 + (i - 1) * a1 < 65536
                   /\ IsFloor(t[i + 1], (8 - i) * a0 + (i - 1) * a1, 7)
                   /\ Between(t[i + 1], a0, a1)
           /\ a0 <= a1
              => /\ \A i \in 2..5 :
                      /\ (6 - i) * a0 + (i - 1) * a1 < 65536
                      /\ IsFloor(t[i + 1], (6 - i) * a0 + (i - 1) * a1, 5)
                      /\ Between(t[i + 1], a0, a1)
                 /\ t[7] = 0
                 /\ t[8] = 255

C24_Witness ==
    /\ ret # NoRet
    /\ desc.alpha0 = 255
    /\ desc.alpha1 = 254
    /\ ret.table = <<255, 254, 254, 254, 254, 254, 254, 254>>


\* Block number n (0-based, stream order) of the image of d, decoded.
ImageBlock(d, n) ==
    LET E == encoded_bytes_per_block(d.variant)
    IN  BcnBlock(d.variant, SubSeq(ImageStream(d), n * E + 1, n * E + E))

\* The bytes of pixel (x, y) of an image buffer width pixels wide.
ImagePixel(buf, width, bpp, x, y) == SubSeq(buf, (y * width + x) * bpp + 1, (y * width + x + 1) * bpp)

\* The rows of the image the buffer holds are stitched from the blocks: pixel
\* (x, y) is pixel (x mod 4, y mod 4) of block (y div 4) * (width / 4) + (x div 4).
Stitched(buf, d, rows) ==
    LET bpp == bytes_per_pixel(d.variant)
    IN  \A y \in 0..(rows - 1) : \A x \in 0..(d.width - 1) :
          ImagePixel(buf, d.width, bpp, x, y)
            = ImagePixel(ImageBlock(d, (y \div 4) * (d.width \div 4) + (x \div 4)), 4, bpp,
                         x % 4, y % 4)

\* While the scanlines are read, the scanlines read so far are stitched, the
\* rest of the buffer is as allocated, and the cursor stands after the blocks
\* of the scanlines read.
StitchedSoFar ==
    (ret # NoRet /\ ret.st = "Reading")
    => /\ Stitched(ret.buf, desc, 4 * ret.reads)
       /\ \A k \in (ret.reads * scanline_bytes(ret.decoder) + 1)..Len(ret.buf) : ret.buf[k] = 0
       /\ ret.pos = ret.reads * (desc.width \div 4) * encoded_bytes_per_block(desc.variant)
       /\ ret.decoder.row = ret.reads

\* A scanline read takes the next blocks of the stream and changes its own four
\* rows of the buffer and nothing else.
OwnRowsOnly ==
    (ret # NoRet /\ ret.st = "Reading" /\ ret'.st = "Reading" /\ ret' # ret)
    => /\ ret'.reads = ret.reads + 1
       /\ ret'.pos = ret.pos + (desc.width \div 4) * encoded_bytes_per_block(desc.variant)
       /\ Len(ret'.buf) = Len(ret.buf)
       /\ \A k \in 1..Len(ret.buf) :
            (k <= ret.reads * scanline_bytes(ret.decoder)
             \/ k > (ret.reads + 1) * scanline_bytes(ret.decoder))
            => ret'.buf[k] = ret.buf[k]

\* C25: pixel (x, y) of the image read_image returns is pixel (x mod 4, y mod 4)
\* of block (y div 4) * (width / 4) + (x div 4) of the stream; the scanlines are
\* decoded in stream order, each writes its own four rows only, and every
\* pixel is written once.
C25_ScanlinesStitched ==
    /\ [](ret # NoRet /\ ret.st = "Ok"
          => /\ ret.width = desc.width /\ ret.height = desc.height
             /\ Len(ret.buf) = desc.width * desc.height * bytes_per_pixel(desc.variant)
             /\ Stitched(ret.buf, desc, desc.height))
    /\ []StitchedSoFar
    /\ [][OwnRowsOnly]_vars

C25_Witness ==
    /\ ret # NoRet
    /\ ret.st = "Ok"
    /\ desc.variant = "BC5"
    /\ desc.width = 12
    /\ desc.height = 8
    /\ ImagePixel(ret.buf, 12, 2, 9, 6) = ImagePixel(ImageBlock(desc, 5), 4, 2, 1, 2)
    /\ ImageBlock(desc, 5) # ImageBlock(desc, 4)


(***************************************************************************)
(* image_conversion/height.rs: the parallel pass of normal_to_height.  The *)
(* main thread spawns num_threads workers, each filters its columns and    *)
(* stores every pixel under the mutex of the shared height buffer; the     *)
(* main thread joins the workers in spawn order and then reads the buffer. *)
(* The value a worker computes for a pixel is left out: a pixel records    *)
(* how often it was stored and by which worker.  Workers are numbered from *)
(* 1 here, thread_id is the number minus one.                              *)
(***************************************************************************)
MaxWidth == 5
MaxHeight == 2
MaxThreads == 3

\* A variant of the column range in which the last worker takes no rest.
ColumnsEndNoRest(width, num_threads, thread_id) == (width \div num_threads) * (thread_id + 1)

ColumnsStart(width, num_threads, thread_id) == (width \div num_threads) * thread_id

\* `end`, with the rest of the division added for the last worker.
ColumnsEnd(width, num_threads, thread_id) ==
    (width \div num_threads) * (thread_id + 1)
    + (IF thread_id = num_threads - 1 THEN width % num_threads ELSE 0)

\* The place of pixel (x, y) in the height buffer.
HeightIndex(d, x, y) == y * d.width + x + 1

\* A worker at (x, y) of its two loops; it is done when the loops are.
Worker(start, end, x, y, height) ==
    [st |-> IF x >= end \/ height = 0 THEN "done" ELSE "run",
     start |-> start, end |-> end, x |-> x, y |-> y]

HeightDescs == [width : 0..MaxWidth, height : 0..MaxHeight, num_threads : 1..MaxThreads]

InitHeight ==
    /\ desc \in HeightDescs
    /\ input = <<desc.width, desc.height>>
    /\ ret = NoRet

\* The buffer is allocated and wrapped in the mutex; no worker exists yet.
HeightBegin ==
    /\ ret = NoRet
    /\ ret' = [st |-> "Filter", threads |-> <<>>, joined |-> 0, lock |-> 0,
               stores |-> [k \in 1..(input[1] * input[2]) |-> 0],
               by |-> [k \in 1..(input[1] * input[2]) |-> 0],
               seen |-> <<>>]
    /\ UNCHANGED <<desc, input>>

\* thread::spawn of the next worker, which computes its column range.
HeightSpawn ==
    /\ ret # NoRet
    /\ ret.st = "Filter"
    /\ Len(ret.threads) < desc.num_threads
    /\ ret' = LET thread_id == Len(ret.threads)
                  start == ColumnsStart(input[1], desc.num_threads, thread_id)
                  end == ColumnsEnd(input[1], desc.num_threads, thread_id)
              IN  [ret EXCEPT !.threads = Append(@, Worker(start, end, start, 0, input[2]))]
    /\ UNCHANGED <<desc, input>>

\* `heights.lock()` of worker t: granted when the mutex is free.
HeightLock(t) ==
    /\ ret # NoRet
    /\ ret.st = "Filter"
    /\ t \in 1..Len(ret.threads)
    /\ ret.threads[t].st = "run"
    /\ ret.lock = 0
    /\ ret' = [ret EXCEPT !.lock = t, !.threads[t].st = "locked"]
    /\ UNCHANGED <<desc, input>>

\* put_pixel(x, y) of worker t under the mutex; the guard is dropped at the end
\* of the statement and the loops move on.
HeightPut(t) ==
    /\ ret # NoRet
    /\ ret.st = "Filter"
    /\ t \in 1..Len(ret.threads)
    /\ ret.threads[t].st = "locked"
    /\ ret' = LET w == ret.threads[t]
                  k == HeightIndex(desc, w.x, w.y)
                  last == w.y + 1 = input[2]
              IN  [ret EXCEPT !.lock = 0,
                              !.stores[k] = @ + 1,
                              !.by[k] = t,
                              !.threads[t] = Worker(w.start, w.end,
                                                    IF last THEN w.x + 1 ELSE w.x,
                                                    IF last THEN 0 ELSE w.y + 1, input[2])]
    /\ UNCHANGED <<desc, input>>

\* handle.join() of the next worker in spawn order, once all are spawned.
HeightJoin ==
    /\ ret # NoRet
    /\ ret.st = "Filter"
    /\ Len(ret.threads) = desc.num_threads
    /\ ret.joined < desc.num_threads
    /\ ret.threads[ret.joined + 1].st = "done"
    /\ ret' = [ret EXCEPT !.joined = @ + 1]
    /\ UNCHANGED <<desc, input>>

\* After the joins the main thread locks the buffer and reads it for the
\* minimum, the maximum and the output image.
HeightAggregate ==
    /\ ret # NoRet
    /\ ret.st = "Filter"
    /\ ret.joined = desc.num_threads
    /\ ret.lock = 0
    /\ ret' = [ret EXCEPT !.st = "Done", !.lock = desc.num_threads + 1, !.seen = ret.stores]
    /\ UNCHANGED <<desc, input>>

NextHeight ==
    \/ HeightBegin
    \/ HeightSpawn
    \/ \E t \in 1..MaxThreads : HeightLock(t)
    \/ \E t \in 1..MaxThreads : HeightPut(t)
    \/ HeightJoin
    \/ HeightAggregate

SpecHeight == InitHeight /\ [][NextHeight]_vars

\* The columns of worker t.
ColumnsOf(t) == { x \in 0..(desc.width - 1) : ret.threads[t].start <= x /\ x < ret.threads[t].end }

\* C26: the column ranges of the workers are pairwise disjoint and, once all
\* are spawned, cover exactly [0, width); a pixel is stored at most once while
\* the workers run, by the worker that owns its column and under the mutex;
\* the buffer is read after every worker is joined, and then every pixel has
\* been stored exactly once.
C26_ColumnPartition ==
    ret # NoRet
    => LET n == Len(ret.threads)
       IN  /\ \A s, t \in 1..n :
                /\ ret.threads[t].start <= ret.threads[t].end
                /\ ret.threads[t].end <= desc.width
                /\ s # t => ColumnsOf(s) \cap ColumnsOf(t) = {}
           /\ n = desc.num_threads
              => \A x \in 0..(desc.width - 1) : \E t \in 1..n : x \in ColumnsOf(t)
           /\ \A x \in 0..(desc.width - 1) : \A y \in 0..(desc.height - 1) :
                LET k == HeightIndex(desc, x, y)
                IN  /\ ret.stores[k] <= 1
                    /\ ret.stores[k] = 1 => x \in ColumnsOf(ret.by[k])
           /\ \A t \in 1..n : ret.threads[t].st = "locked" <=> ret.lock = t
           /\ ret.st = "Done"
              => /\ ret.joined = desc.num_threads
                 /\ \A t \in 1..n : ret.threads[t].st = "done"
                 /\ Len(ret.seen) = desc.width * desc.height
                 /\ \A k \in 1..Len(ret.seen) : ret.seen[k] = 1

C26_Witness ==
    /\ ret # NoRet
    /\ ret.st = "Done"
    /\ desc.width = 2
    /\ desc.height = 2
    /\ desc.num_threads = 3
    /\ ret.seen = <<1, 1, 1, 1>>
    /\ ret.by = <<3, 3, 3, 3>>

=============================================================================
